---------------------------- MODULE Spec2Model ----------------------------
(***************************************************************************)
(* A model of perspect's deterministic core: the SQL DDL parser, the       *)
(* Prisma (schema-dialect) parser and the Zod / TypeScript generators.     *)
(* Text is modelled as TLA+ strings, character by character; each regular  *)
(* expression of the source is a matcher over those characters.            *)
(***************************************************************************)
EXTENDS Integers, Sequences, FiniteSets, TLC

VARIABLES
    splitBody,      \* splitColumns: the table body handed to it
    splitOut,       \* splitColumns: the definitions it returned
    splitPc,        \* "call" before the call, "done" after it
    sqlStmts,       \* parseSqlSchema: the statements the input text was written from
    sqlInput,       \* parseSqlSchema: the input text
    sqlOut,         \* parseSqlSchema: the DatabaseSchema it returned
    sqlPc,          \* "call" before the call, "done" after it
    prDoc,          \* parsePrismaSchema: the blocks the input text was written from
    prInput,        \* parsePrismaSchema: the input text
    prLines,        \* parsePrismaSchema: lines, the input split at line breaks
    prLine,         \* the number of lines the for loop has been through
    currentBlock,   \* parsePrismaSchema: the block that is open, if any
    prModels,       \* parsePrismaSchema: models
    prEnums,        \* parsePrismaSchema: enums
    prPc,           \* "call" before the call, "scan" in the loop, "done" after it
    genSchema,      \* generateFromTemplate: schema
    genConfig,      \* generateFromTemplate: config
    genTarget,      \* generateFromTemplate: target
    genOut,         \* generateFromTemplate: the text it returned
    genPc,          \* "call" before the first call, "done" after a call, "thrown" if it threw
    genPrev,        \* generateFromTemplate: the text the call before the last returned, if any
    genCalls,       \* the number of calls made with schema, target and config
    dfText,         \* detectFormat: the lines the input text was written from, and the text
    dfOut,          \* detectFormat: the format it returned
    dfPc,           \* "call" before the call, "done" after it
    psInput,        \* parseSchema: input
    psFormat,       \* parseSchema: format
    psOut,          \* parseSchema: what it returned (Absent for null)
    psPc,           \* "call" before the call, "done" after it, "thrown" if it threw
    rlNow,          \* rateLimit: Date.now() at the last call
    rlStore,        \* rateLimit: store, for the keys of the calling clients
    rlOthers,       \* rateLimit: the number of other keys store holds
    rlLast,         \* rateLimit: the last call, its client and the Response it returned
    rlPlain,        \* what store would hold had the cleanup never run
    rlAdmitted,     \* the times of the admitted calls, client by client
    rlDeadline,     \* when the Retry-After given to a rejected client runs out
    rlCalls,        \* the number of calls made
    epRoute,        \* the handler a request is for: "parse" or "generate"
    epHeaders,      \* the request: the headers rateLimit reads
    epBody,         \* the request: its body
    epPc,           \* where the handler is: "received", "limit", "model", "await", "responded"
    epTrace,        \* the calls of rateLimit and of the model the handler has made, in order
    epResponse,     \* the Response the handler returned
    epReply,        \* parse: what the model answered
    epRaised,       \* generate: whether generateFromTemplate threw
    schemaInput,    \* Home: the text in the editor
    activeTab,      \* Home: the tab of the output panel that is open
    outputs,        \* Home: the text shown for each target
    isGenerating,   \* Home: isGenerating
    streamingTarget,\* Home: streamingTarget (Absent for null)
    pageError,      \* Home: error (Absent for null)
    abortRef,       \* Home: the run whose controller abortRef.current is, if any
    aborted,        \* the runs whose controller was aborted
    runs,           \* the runs handleGenerate started, and where each waits
    started         \* the number of runs started

splitVars == <<splitBody, splitOut, splitPc>>
sqlVars == <<sqlStmts, sqlInput, sqlOut, sqlPc>>
prVars == <<prDoc, prInput, prLines, prLine, currentBlock, prModels, prEnums, prPc>>

genVars == <<genSchema, genConfig, genTarget, genOut, genPc, genPrev, genCalls>>

dfVars == <<dfText, dfOut, dfPc>>
psVars == <<psInput, psFormat, psOut, psPc>>
rlVars == <<rlNow, rlStore, rlOthers, rlLast, rlPlain, rlAdmitted, rlDeadline, rlCalls>>
epVars == <<epRoute, epHeaders, epBody, epPc, epTrace, epResponse, epReply, epRaised>>

pgVars == <<schemaInput, activeTab, outputs, isGenerating, streamingTarget, pageError, abortRef,
           aborted, runs, started>>

coreVars == <<splitVars, sqlVars, prVars, genVars, dfVars, psVars>>

vars == <<splitVars, sqlVars, prVars, genVars, dfVars, psVars, rlVars, epVars, pgVars>>

(***************************************************************************)
(* Strings as JavaScript sees them                                         *)
(***************************************************************************)

At(s, i) == SubSeq(s, i, i)

CharsOf(s) == {At(s, i) : i \in 1..Len(s)}

LowerLetters == "abcdefghijklmnopqrstuvwxyz"
UpperLetters == "ABCDEFGHIJKLMNOPQRSTUVWXYZ"
Digits == "0123456789"

\* \w
WordChars == CharsOf(LowerLetters) \cup CharsOf(UpperLetters) \cup CharsOf(Digits) \cup {"_"}
\* \s (and what String.prototype.trim strips)
SpaceChars == {" ", "\t", "\n", "\r"}
\* what "." does not match
LineTerminators == {"\n", "\r"}

UpperOf == [c \in CharsOf(LowerLetters) |->
               At(UpperLetters, CHOOSE i \in 1..26 : At(LowerLetters, i) = c)]
LowerOf == [c \in CharsOf(UpperLetters) |->
               At(LowerLetters, CHOOSE i \in 1..26 : At(UpperLetters, i) = c)]

UpperChar(c) == IF c \in DOMAIN UpperOf THEN UpperOf[c] ELSE c
LowerChar(c) == IF c \in DOMAIN LowerOf THEN LowerOf[c] ELSE c

\* a text with f applied to each of its characters (halving keeps the
\* evaluation shallow)
RECURSIVE MapChars(_, _)
MapChars(f(_), s) ==
    IF Len(s) = 0 THEN ""
    ELSE IF Len(s) = 1 THEN f(s)
    ELSE LET h == Len(s) \div 2
         IN  MapChars(f, SubSeq(s, 1, h)) \o MapChars(f, SubSeq(s, h + 1, Len(s)))

\* for (const char of s): step applied to each character in turn, left to
\* right, starting from st (the left half first, then the right half from
\* where the left half ended)
RECURSIVE FoldChars(_, _, _)
FoldChars(step(_, _), st, s) ==
    IF Len(s) = 0 THEN st
    ELSE IF Len(s) = 1 THEN step(st, s)
    ELSE LET h == Len(s) \div 2
             left == FoldChars(step, st, SubSeq(s, 1, h))
         IN  \* the test makes TLC finish the left half before it starts the right
             IF left = left THEN FoldChars(step, left, SubSeq(s, h + 1, Len(s))) ELSE st

toUpperCase(s) == MapChars(UpperChar, s)

toLowerCase(s) == MapChars(LowerChar, s)

trim(s) ==
    LET keep == {i \in 1..Len(s) : At(s, i) \notin SpaceChars}
    IN  IF keep = {} THEN ""
        ELSE SubSeq(s, CHOOSE i \in keep : \A j \in keep : i <= j,
                       CHOOSE i \in keep : \A j \in keep : j <= i)

startsWith(s, p) == Len(s) >= Len(p) /\ SubSeq(s, 1, Len(p)) = p

\* the text at position i of s is p
LitAt(s, i, p) == i + Len(p) - 1 <= Len(s) /\ SubSeq(s, i, i + Len(p) - 1) = p

includes(s, p) == \E i \in 1..(Len(s) + 1) : LitAt(s, i, p)

(***************************************************************************)
(* Regular-expression pieces.  A position is an index into the text; a     *)
(* matcher returns the position after what it matched, or 0 when it fails, *)
(* and fails when handed 0, so matchers chain left to right.               *)
(***************************************************************************)

\* a literal, compared the way the i flag compares (lit is upper case)
LitCI(s, i, lit) ==
    IF i > 0 /\ i + Len(lit) - 1 <= Len(s)
             /\ \A k \in 1..Len(lit) : UpperChar(At(s, i + k - 1)) = At(lit, k)
    THEN i + Len(lit) ELSE 0

\* a literal, case-sensitive
Lit(s, i, lit) == IF i > 0 /\ LitAt(s, i, lit) THEN i + Len(lit) ELSE 0

\* the first position from i on whose character is outside class
RunEnd(s, i, class) ==
    LET out == {j \in i..Len(s) : At(s, j) \notin class}
    IN  IF out = {} THEN Len(s) + 1 ELSE CHOOSE j \in out : \A k \in out : j <= k

\* the first position from i on whose character is in stop (Len(s)+1 if none)
RunEndNot(s, i, stop) ==
    LET hit == {j \in i..Len(s) : At(s, j) \in stop}
    IN  IF hit = {} THEN Len(s) + 1 ELSE CHOOSE j \in hit : \A k \in hit : j <= k

\* class+ and class*, greedy.  Every use below is followed by something that
\* cannot start with a character of the class, so the longest run is the
\* only one the backtracking matcher can end up with.
Plus(s, i, class) ==
    IF i = 0 THEN 0 ELSE LET e == RunEnd(s, i, class) IN IF e > i THEN e ELSE 0
Star(s, i, class) == IF i = 0 THEN 0 ELSE RunEnd(s, i, class)
\* [^stop]+ and [^stop]*
PlusNot(s, i, stop) ==
    IF i = 0 THEN 0 ELSE LET e == RunEndNot(s, i, stop) IN IF e > i THEN e ELSE 0
StarNot(s, i, stop) == IF i = 0 THEN 0 ELSE RunEndNot(s, i, stop)
\* an optional identifier quote.  The source accepts a double quote or a
\* backquote; no text drawn below holds a backquote (a TLA+ string cannot
\* spell one), so only the double quote can occur.
QuoteChars == {"\""}
OptQuote(s, i) ==
    IF i = 0 THEN 0 ELSE IF i <= Len(s) /\ At(s, i) \in QuoteChars THEN i + 1 ELSE i

\* String.prototype.split on a one-character separator
RECURSIVE splitOn(_, _)
splitOn(s, sep) ==
    LET e == RunEndNot(s, 1, {sep})
    IN  IF e > Len(s) THEN <<s>>
        ELSE <<SubSeq(s, 1, e - 1)>> \o splitOn(SubSeq(s, e + 1, Len(s)), sep)

\* replace(/c/g, "")
removeAll(s, c) == MapChars(LAMBDA x : IF x = c THEN "" ELSE x, s)

MapSeq(f(_), q) == [k \in 1..Len(q) |-> f(q[k])]

RECURSIVE Concat(_)
Concat(q) == IF q = <<>> THEN "" ELSE Head(q) \o Concat(Tail(q))

\* Array.prototype.join
RECURSIVE Join(_, _)
Join(q, sep) ==
    IF q = <<>> THEN ""
    ELSE IF Len(q) = 1 THEN q[1]
    ELSE q[1] \o sep \o Join(Tail(q), sep)

\* the k-th smallest element of a finite set of integers
KthOf(S, k) == CHOOSE x \in S : Cardinality({y \in S : y < x}) = k - 1

Range(q) == {q[k] : k \in 1..Len(q)}

\* Array.prototype.filter
SeqFilter(q, keep(_)) ==
    LET idx == {k \in 1..Len(q) : keep(q[k])}
    IN  [n \in 1..Cardinality(idx) |-> q[KthOf(idx, n)]]

\* the least position in from..Len(s) that satisfies ok, or 0
FirstPos(ok(_), s, from) ==
    LET hits == {i \in from..Len(s) : ok(i)}
    IN  IF hits = {} THEN 0 ELSE CHOOSE i \in hits : \A j \in hits : i <= j

(***************************************************************************)
(* sql.ts: string utilities                                                *)
(***************************************************************************)

\* split(/[_\s-]+/): the pieces between maximal runs of separators
RECURSIVE splitWords(_)
splitWords(str) ==
    LET seps == SpaceChars \cup {"_", "-"}
        e == RunEndNot(str, 1, seps)
    IN  IF e > Len(str) THEN <<str>>
        ELSE <<SubSeq(str, 1, e - 1)>>
                 \o splitWords(SubSeq(str, RunEnd(str, e, seps), Len(str)))

capitalize(word) ==
    IF word = "" THEN "" ELSE UpperChar(Head(word)) \o toLowerCase(Tail(word))

toPascalCase(str) == Concat(MapSeq(capitalize, splitWords(str)))

toCamelCase(str) ==
    LET pascal == toPascalCase(str)
    IN  IF pascal = "" THEN "" ELSE LowerChar(Head(pascal)) \o Tail(pascal)

(***************************************************************************)
(* sql.ts: splitColumns                                                    *)
(***************************************************************************)

\* the body of the for loop: one character, on the loop's three variables
splitStep(st, char) ==
    LET depth == IF char = "(" THEN st.depth + 1
                 ELSE IF char = ")" THEN st.depth - 1
                 ELSE st.depth
    IN  IF char = "," /\ depth = 0
        THEN [depth |-> depth, current |-> "", result |-> Append(st.result, st.current)]
        ELSE [depth |-> depth, current |-> st.current \o char, result |-> st.result]

\* a plausible slip: the nesting depth is never tracked
splitStepFlat(st, char) ==
    IF char = ","
    THEN [depth |-> 0, current |-> "", result |-> Append(st.result, st.current)]
    ELSE [depth |-> 0, current |-> st.current \o char, result |-> st.result]

splitColumnsFlat(body) ==
    LET r == FoldChars(splitStepFlat, [depth |-> 0, current |-> "", result |-> <<>>], body)
    IN  IF trim(r.current) # "" THEN Append(r.result, r.current) ELSE r.result

splitColumns(body) ==
    LET r == FoldChars(splitStep, [depth |-> 0, current |-> "", result |-> <<>>], body)
    IN  IF trim(r.current) # "" THEN Append(r.result, r.current) ELSE r.result

(***************************************************************************)
(* The intermediate representation.  An optional attribute is a sequence   *)
(* of no or one value: <<>> is "absent", <<v>> is "present with value v".  *)
(***************************************************************************)

Absent == <<>>
Some(v) == <<v>>

Field(name, type, isRequired, isUnique, isId, isList) ==
    [name |-> name, type |-> type, isRequired |-> isRequired, isUnique |-> isUnique,
     isId |-> isId, isList |-> isList,
     default |-> Absent, enumValues |-> Absent, relation |-> Absent, description |-> Absent]

(***************************************************************************)
(* sql.ts: parseSqlColumn                                                  *)
(***************************************************************************)

mapSqlType(sqlType) ==
    IF sqlType \in {"VARCHAR", "CHAR", "TEXT", "UUID", "CITEXT"} THEN "string"
    ELSE IF sqlType \in {"INTEGER", "INT", "SMALLINT", "BIGINT", "SERIAL", "BIGSERIAL",
                         "FLOAT", "DOUBLE", "DECIMAL", "NUMERIC", "REAL"} THEN "number"
    ELSE IF sqlType \in {"BOOLEAN", "BOOL"} THEN "boolean"
    ELSE IF sqlType = "DATE" THEN "date"
    ELSE IF sqlType \in {"TIMESTAMP", "TIMESTAMPTZ"} THEN "datetime"
    ELSE IF sqlType \in {"JSON", "JSONB"} THEN "json"
    ELSE "string"

\* /^["`]?(\w+)["`]?\s+(\w+)(?:\(([^)]*)\))?(.*)$/i
\* The group in parentheses is taken whenever a ")" follows; (.*)$ then needs
\* the remainder to hold no line terminator, and giving the group (or part of
\* the type) back only makes the remainder longer, so it cannot rescue a match.
columnRegex(def) ==
    LET n0 == OptQuote(def, 1)
        n1 == Plus(def, n0, WordChars)
        t0 == Plus(def, OptQuote(def, n1), SpaceChars)
        t1 == Plus(def, t0, WordChars)
        p2 == Lit(def, StarNot(def, Lit(def, t1, "("), {")"}), ")")
        r0 == IF p2 # 0 THEN p2 ELSE t1
        rest == SubSeq(def, r0, Len(def))
    IN  IF t1 # 0 /\ CharsOf(rest) \cap LineTerminators = {}
        THEN [ok |-> TRUE, name |-> SubSeq(def, n0, n1 - 1),
              rawType |-> SubSeq(def, t0, t1 - 1), rest |-> rest]
        ELSE [ok |-> FALSE, name |-> "", rawType |-> "", rest |-> ""]

\* /DEFAULT\s+(?:'([^']*)'|(\S+))/i at position i: the position after the
\* match and the captured literal (group 1 if the quoted form matched, else
\* group 2)
defaultRegexAt(rest, i) ==
    LET d0 == Plus(rest, LitCI(rest, i, "DEFAULT"), SpaceChars)
        q0 == Lit(rest, d0, "'")
        q1 == StarNot(rest, q0, {"'"})
        q2 == Lit(rest, q1, "'")
        s1 == PlusNot(rest, d0, SpaceChars)
    IN  IF q2 # 0 THEN [end |-> q2, value |-> SubSeq(rest, q0, q1 - 1)]
        ELSE IF s1 # 0 THEN [end |-> s1, value |-> SubSeq(rest, d0, s1 - 1)]
        ELSE [end |-> 0, value |-> ""]

\* /REFERENCES\s+["`]?(\w+)["`]?/i at position i
referencesRegexAt(rest, i) ==
    LET r0 == OptQuote(rest, Plus(rest, LitCI(rest, i, "REFERENCES"), SpaceChars))
        r1 == Plus(rest, r0, WordChars)
    IN  IF r1 # 0 THEN [end |-> OptQuote(rest, r1), table |-> SubSeq(rest, r0, r1 - 1)]
        ELSE [end |-> 0, table |-> ""]

FindEnum(knownEnums, same(_)) ==
    LET hits == {k \in 1..Len(knownEnums) : same(knownEnums[k].name)}
    IN  IF hits = {} THEN Absent
        ELSE Some(knownEnums[CHOOSE k \in hits : \A j \in hits : k <= j])

\* a plausible slip: NOT NULL alone decides isRequired
isRequiredNotNullOnly(restUpper, isId) == includes(restUpper, "NOT NULL")

sqlIsRequired(restUpper, isId) == includes(restUpper, "NOT NULL") \/ isId

\* the relation descriptor of a REFERENCES column
sqlRelation(name, table) ==
    [model |-> toPascalCase(table), type |-> "one-to-one",
     foreignKey |-> Some(toCamelCase(name))]

\* the result is Absent (null) or Some(field)
parseSqlColumn(def, knownEnums) ==
    LET match == columnRegex(def)
    IN  IF ~match.ok THEN Absent
        ELSE
        LET name == match.name
            rawType == match.rawType
            rest == match.rest
            upperType == toUpperCase(rawType)
            restUpper == toUpperCase(rest)
            isId == includes(restUpper, "PRIMARY KEY") \/ includes(restUpper, "SERIAL")
            isUnique == includes(restUpper, "UNIQUE")
            isRequired == sqlIsRequired(restUpper, isId)
            dpos == FirstPos(LAMBDA i : defaultRegexAt(rest, i).end # 0, rest, 1)
            defaultValue == IF dpos = 0 THEN "" ELSE defaultRegexAt(rest, dpos).value
            enumDef == FindEnum(knownEnums,
                                LAMBDA n : toLowerCase(n) = toLowerCase(rawType))
            rpos == FirstPos(LAMBDA i : referencesRegexAt(rest, i).end # 0, rest, 1)
            type == IF enumDef # Absent THEN "enum" ELSE mapSqlType(upperType)
            field == [Field(toCamelCase(name), type, isRequired, isUnique, isId, FALSE)
                        EXCEPT !.default = IF defaultValue # "" THEN Some(defaultValue)
                                           ELSE Absent,
                               !.enumValues = IF enumDef # Absent
                                              THEN Some(enumDef[1].values) ELSE Absent]
        IN  IF rpos # 0
            THEN Some([field EXCEPT
                         !.type = "relation",
                         !.relation = Some(sqlRelation(name,
                                               referencesRegexAt(rest, rpos).table))])
            ELSE Some(field)

(***************************************************************************)
(* sql.ts: parseSqlColumns                                                 *)
(***************************************************************************)

\* /^(PRIMARY\s+KEY|FOREIGN\s+KEY|UNIQUE|INDEX|CHECK|CONSTRAINT)/i
constraintRegex(trimmed) ==
    \/ LitCI(trimmed, Plus(trimmed, LitCI(trimmed, 1, "PRIMARY"), SpaceChars), "KEY") # 0
    \/ LitCI(trimmed, Plus(trimmed, LitCI(trimmed, 1, "FOREIGN"), SpaceChars), "KEY") # 0
    \/ LitCI(trimmed, 1, "UNIQUE") # 0
    \/ LitCI(trimmed, 1, "INDEX") # 0
    \/ LitCI(trimmed, 1, "CHECK") # 0
    \/ LitCI(trimmed, 1, "CONSTRAINT") # 0

RECURSIVE parseSqlDefs(_, _)
parseSqlDefs(columnDefs, knownEnums) ==
    IF columnDefs = <<>> THEN <<>>
    ELSE LET trimmed == trim(Head(columnDefs))
             others == parseSqlDefs(Tail(columnDefs), knownEnums)
         IN  IF constraintRegex(trimmed) THEN others
             ELSE parseSqlColumn(trimmed, knownEnums) \o others

parseSqlColumns(body, knownEnums) == parseSqlDefs(splitColumns(body), knownEnums)

(***************************************************************************)
(* sql.ts: parseSqlSchema                                                  *)
(***************************************************************************)

NoMatch == [end |-> 0, name |-> "", body |-> ""]

\* /CREATE\s+TYPE\s+(\w+)\s+AS\s+ENUM\s*\(([^)]+)\)/gi at position i
enumRegexAt(s, i) ==
    LET n0 == Plus(s, LitCI(s, Plus(s, LitCI(s, i, "CREATE"), SpaceChars), "TYPE"),
                   SpaceChars)
        n1 == Plus(s, n0, WordChars)
        as == LitCI(s, Plus(s, n1, SpaceChars), "AS")
        b0 == Lit(s, Star(s, LitCI(s, Plus(s, as, SpaceChars), "ENUM"), SpaceChars), "(")
        b1 == PlusNot(s, b0, {")"})
        e == Lit(s, b1, ")")
    IN  IF e # 0
        THEN [end |-> e, name |-> SubSeq(s, n0, n1 - 1), body |-> SubSeq(s, b0, b1 - 1)]
        ELSE NoMatch

\* /CREATE\s+TABLE\s+(?:IF\s+NOT\s+EXISTS\s+)?["`]?(\w+)["`]?\s*\(([^;]+)\)/gi
\* at position i.  ([^;]+) runs to the next ";" (or the end of the text) and
\* is then given back up to the last ")" of that run.
tableRegexFrom(s, n) ==
    LET n0 == OptQuote(s, n)
        n1 == Plus(s, n0, WordChars)
        b0 == Lit(s, Star(s, OptQuote(s, n1), SpaceChars), "(")
        run == RunEndNot(s, b0, {";"})
        closers == {q \in (b0 + 1)..(run - 1) : At(s, q) = ")"}
        last == CHOOSE q \in closers : \A r \in closers : r <= q
    IN  IF b0 # 0 /\ closers # {}
        THEN [end |-> last + 1, name |-> SubSeq(s, n0, n1 - 1),
              body |-> SubSeq(s, b0, last - 1)]
        ELSE NoMatch

tableRegexAt(s, i) ==
    LET t0 == Plus(s, LitCI(s, Plus(s, LitCI(s, i, "CREATE"), SpaceChars), "TABLE"),
                   SpaceChars)
        g1 == Plus(s, LitCI(s, Plus(s, LitCI(s, t0, "IF"), SpaceChars), "NOT"), SpaceChars)
        g2 == Plus(s, LitCI(s, g1, "EXISTS"), SpaceChars)
    IN  IF g2 # 0 /\ tableRegexFrom(s, g2).end # 0 THEN tableRegexFrom(s, g2)
        ELSE tableRegexFrom(s, t0)

enumValuesOf(body) == MapSeq(LAMBDA v : removeAll(trim(v), "'"), splitOn(body, ","))

\* the while loop over enumRegex.exec(input), from lastIndex on
RECURSIVE execEnums(_, _)
execEnums(input, lastIndex) ==
    LET i == FirstPos(LAMBDA k : enumRegexAt(input, k).end # 0, input, lastIndex)
        m == enumRegexAt(input, i)
    IN  IF i = 0 THEN <<>>
        ELSE <<[name |-> m.name, values |-> enumValuesOf(m.body)]>>
                 \o execEnums(input, m.end)

\* the while loop over tableRegex.exec(input), from lastIndex on
RECURSIVE execTables(_, _, _)
execTables(input, lastIndex, enums) ==
    LET i == FirstPos(LAMBDA k : tableRegexAt(input, k).end # 0, input, lastIndex)
        m == tableRegexAt(input, i)
    IN  IF i = 0 THEN <<>>
        ELSE <<[name |-> toPascalCase(m.name), fields |-> parseSqlColumns(m.body, enums)]>>
                 \o execTables(input, m.end, enums)

parseSqlSchema(input) ==
    LET enums == execEnums(input, 1)
    IN  [models |-> execTables(input, 1, enums), enums |-> enums]

(***************************************************************************)
(* prisma.ts: parsePrismaField                                             *)
(***************************************************************************)

\* typeMap is an object literal, so a lookup also finds what every object
\* inherits: for these keys typeMap[key] is a function (an object for
\* __proto__), not a FieldType, and the ?? fallback does not apply.
InheritedKeys ==
    {"constructor", "toString", "valueOf", "toLocaleString", "hasOwnProperty",
     "isPrototypeOf", "propertyIsEnumerable", "__proto__", "__defineGetter__",
     "__defineSetter__", "__lookupGetter__", "__lookupSetter__"}

\* what the lookup yields for an inherited key: a value that is no FieldType
InheritedValue == "[inherited]"

mapPrismaType(prismaType, isEnum) ==
    IF isEnum THEN "enum"
    ELSE CASE prismaType \in InheritedKeys -> InheritedValue
           [] prismaType = "String" -> "string"
           [] prismaType = "Int" -> "number"
           [] prismaType = "Float" -> "number"
           [] prismaType = "Decimal" -> "number"
           [] prismaType = "BigInt" -> "number"
           [] prismaType = "Boolean" -> "boolean"
           [] prismaType = "DateTime" -> "datetime"
           [] prismaType = "Json" -> "json"
           [] OTHER -> "relation"

\* /^(\w+)\s+(\w+)(\[\])?\??/
fieldRegex(line) ==
    LET nameEnd == Plus(line, 1, WordChars)
        typeStart == Plus(line, nameEnd, SpaceChars)
        typeEnd == Plus(line, typeStart, WordChars)
    IN  IF typeEnd = 0
        THEN [ok |-> FALSE, name |-> "", rawType |-> "", isList |-> FALSE]
        ELSE [ok |-> TRUE, name |-> SubSeq(line, 1, nameEnd - 1),
              rawType |-> SubSeq(line, typeStart, typeEnd - 1),
              isList |-> LitAt(line, typeEnd, "[]")]

\* /@default\(([^)]+)\)/ tried at position i: the position of the closing
\* parenthesis, or 0
prismaDefaultAt(line, i) ==
    LET e == PlusNot(line, Lit(line, i, "@default("), {")"})
    IN  IF e = 0 \/ e > Len(line) THEN 0 ELSE e

\* line.match(/@default\(([^)]+)\)/): the captured text, if any
prismaDefault(line) ==
    LET i == FirstPos(LAMBDA k : prismaDefaultAt(line, k) # 0, line, 1)
    IN  IF i = 0 THEN Absent
        ELSE Some(SubSeq(line, i + Len("@default("), prismaDefaultAt(line, i) - 1))

\* /@relation\(([^)]*)\)/ tried at position i
prismaRelationAt(line, i) ==
    LET e == StarNot(line, Lit(line, i, "@relation("), {")"})
    IN  IF e = 0 \/ e > Len(line) THEN 0 ELSE e

\* /fields:\s*\[(\w+)\]/ tried at position i of the @relation arguments
fieldsRegexAt(args, i) ==
    LET nameStart == Lit(args, Star(args, Lit(args, i, "fields:"), SpaceChars), "[")
        nameEnd == Plus(args, nameStart, WordChars)
    IN  IF Lit(args, nameEnd, "]") = 0 THEN [ok |-> FALSE, name |-> ""]
        ELSE [ok |-> TRUE, name |-> SubSeq(args, nameStart, nameEnd - 1)]

foreignKeyOf(line) ==
    LET i == FirstPos(LAMBDA k : prismaRelationAt(line, k) # 0, line, 1)
        args == SubSeq(line, i + Len("@relation("), prismaRelationAt(line, i) - 1)
        j == FirstPos(LAMBDA k : fieldsRegexAt(args, k).ok, args, 1)
    IN  IF i = 0 THEN Absent
        ELSE IF j = 0 THEN Absent
        ELSE Some(fieldsRegexAt(args, j).name)

\* a plausible slip: optional only when the line ends with "?"
isOptionalAtLineEnd(line) == Len(line) > 0 /\ At(line, Len(line)) = "?"

isOptional(line) == includes(line, "?")

\* the result is Absent (null) or Some(field)
\* a plausible slip: a list field read as one side of a many-to-many relation
prismaRelationManyToMany(line, rawType, isList) ==
    [model |-> rawType,
     type |-> IF isList THEN "many-to-many" ELSE "one-to-one",
     foreignKey |-> foreignKeyOf(line)]

\* the relation descriptor of a field whose type is no scalar and no enum
prismaRelation(line, rawType, isList) ==
    [model |-> rawType,
     type |-> IF isList THEN "one-to-many" ELSE "one-to-one",
     foreignKey |-> foreignKeyOf(line)]

parsePrismaField(line, knownEnums) ==
    LET match == fieldRegex(line)
        rawType == match.rawType
        enumDef == FindEnum(knownEnums, LAMBDA n : n = rawType)
        type == mapPrismaType(rawType, enumDef # Absent)
        field == [Field(match.name, type, ~isOptional(line), includes(line, "@unique"),
                        includes(line, "@id"), match.isList)
                      EXCEPT !.default = prismaDefault(line),
                             !.enumValues = IF enumDef # Absent
                                            THEN Some(enumDef[1].values) ELSE Absent]
    IN  IF ~match.ok THEN Absent
        ELSE IF type = "relation"
        THEN Some([field EXCEPT !.relation = Some(prismaRelation(line, rawType, match.isList))])
        ELSE Some(field)

\* a plausible slip: the loop stops at the first line that is no field
RECURSIVE parseModelFieldsUntilMismatch(_, _)
parseModelFieldsUntilMismatch(lines, knownEnums) ==
    IF lines = <<>> THEN <<>>
    ELSE IF parsePrismaField(Head(lines), knownEnums) = Absent THEN <<>>
    ELSE parsePrismaField(Head(lines), knownEnums)
             \o parseModelFieldsUntilMismatch(Tail(lines), knownEnums)

RECURSIVE parseModelFields(_, _)
parseModelFields(lines, knownEnums) ==
    IF lines = <<>> THEN <<>>
    ELSE parsePrismaField(Head(lines), knownEnums)
             \o parseModelFields(Tail(lines), knownEnums)

(***************************************************************************)
(* prisma.ts: parsePrismaSchema                                            *)
(***************************************************************************)

\* /^model\s+(\w+)\s*\{/ and /^enum\s+(\w+)\s*\{/
blockRegex(trimmed, keyword) ==
    LET nameStart == Plus(trimmed, Lit(trimmed, 1, keyword), SpaceChars)
        nameEnd == Plus(trimmed, nameStart, WordChars)
    IN  IF Lit(trimmed, Star(trimmed, nameEnd, SpaceChars), "{") = 0
        THEN [ok |-> FALSE, name |-> ""]
        ELSE [ok |-> TRUE, name |-> SubSeq(trimmed, nameStart, nameEnd - 1)]

\* the scanner before its first line
PrismaStart == [currentBlock |-> Absent, models |-> <<>>, enums |-> <<>>]

\* a plausible slip: a model's fields are parsed knowing no enum
closeBlockKnowingNoEnum(st) ==
    LET block == st.currentBlock[1]
    IN  IF block.type = "model"
        THEN [currentBlock |-> Absent,
              models |-> Append(st.models,
                                [name |-> block.name,
                                 fields |-> parseModelFields(block.lines, <<>>)]),
              enums |-> st.enums]
        ELSE [currentBlock |-> Absent, models |-> st.models,
              enums |-> Append(st.enums,
                               [name |-> block.name,
                                values |-> SeqFilter(MapSeq(trim, block.lines),
                                                     LAMBDA l : l # "" /\ ~startsWith(l, "//"))])]

\* the "}" branch of the loop, taken with a block open
closeBlock(st) ==
    LET block == st.currentBlock[1]
    IN  IF block.type = "model"
        THEN [currentBlock |-> Absent,
              models |-> Append(st.models,
                                [name |-> block.name,
                                 fields |-> parseModelFields(block.lines, st.enums)]),
              enums |-> st.enums]
        ELSE [currentBlock |-> Absent, models |-> st.models,
              enums |-> Append(st.enums,
                               [name |-> block.name,
                                values |-> SeqFilter(MapSeq(trim, block.lines),
                                                     LAMBDA l : l # "" /\ ~startsWith(l, "//"))])]

\* the loop's body, were an opening line to emit the block it finds open
\* instead of discarding it
prismaStepFlushing(st, line) ==
    LET trimmed == trim(line)
        modelMatch == blockRegex(trimmed, "model")
        enumMatch == blockRegex(trimmed, "enum")
        flushed == IF st.currentBlock # Absent THEN closeBlock(st) ELSE st
    IN  IF modelMatch.ok
        THEN [flushed EXCEPT !.currentBlock =
                            Some([type |-> "model", name |-> modelMatch.name, lines |-> <<>>])]
        ELSE IF enumMatch.ok
        THEN [flushed EXCEPT !.currentBlock =
                            Some([type |-> "enum", name |-> enumMatch.name, lines |-> <<>>])]
        ELSE IF trimmed = "}" /\ st.currentBlock # Absent
        THEN closeBlock(st)
        ELSE IF st.currentBlock # Absent /\ trimmed # ""
                /\ ~startsWith(trimmed, "//") /\ ~startsWith(trimmed, "@@")
        THEN [st EXCEPT !.currentBlock[1].lines = Append(@, trimmed)]
        ELSE st

\* the body of the for loop: one line, on the loop's three variables
prismaStep(st, line) ==
    LET trimmed == trim(line)
        modelMatch == blockRegex(trimmed, "model")
        enumMatch == blockRegex(trimmed, "enum")
    IN  IF modelMatch.ok
        THEN [st EXCEPT !.currentBlock =
                            Some([type |-> "model", name |-> modelMatch.name, lines |-> <<>>])]
        ELSE IF enumMatch.ok
        THEN [st EXCEPT !.currentBlock =
                            Some([type |-> "enum", name |-> enumMatch.name, lines |-> <<>>])]
        ELSE IF trimmed = "}" /\ st.currentBlock # Absent
        THEN closeBlock(st)
        ELSE IF st.currentBlock # Absent /\ trimmed # ""
                /\ ~startsWith(trimmed, "//") /\ ~startsWith(trimmed, "@@")
        THEN [st EXCEPT !.currentBlock[1].lines = Append(@, trimmed)]
        ELSE st

\* the for loop from line i on.  The state after a line is bound as the
\* element of a one-element set, so that it is computed once before the loop
\* goes on.
RECURSIVE prismaScan(_, _, _)
prismaScan(st, lines, i) ==
    IF i > Len(lines) THEN st
    ELSE CHOOSE end \in {prismaScan(next, lines, i + 1) :
                             next \in {prismaStep(st, lines[i])}} : TRUE

parsePrismaSchema(input) ==
    CHOOSE schema \in {[models |-> st.models, enums |-> st.enums] :
                          st \in {prismaScan(PrismaStart, lines, 1) :
                                     lines \in {splitOn(input, "\n")}}} : TRUE

(***************************************************************************)
(* parsers/index.ts: parseSchema and detectFormat                          *)
(***************************************************************************)

\* the value a call leaves behind: it returned value, or it threw
Returned(value) == [threw |-> FALSE, value |-> value]
Thrown == [threw |-> TRUE, value |-> Absent]

\* a plausible slip: english falls through to the default case
parseSchemaEnglishUnknown(input, format) ==
    CASE format = "prisma" -> Returned(Some(parsePrismaSchema(input)))
      [] format = "sql" -> Returned(Some(parseSqlSchema(input)))
      [] OTHER -> Thrown

\* the switch of parseSchema: null is Absent; the default case throws
parseSchema(input, format) ==
    CASE format = "prisma" -> Returned(Some(parsePrismaSchema(input)))
      [] format = "sql" -> Returned(Some(parseSqlSchema(input)))
      [] format = "english" -> Returned(Absent)
      [] OTHER -> Thrown

\* "^" under the m flag: the start of the text or the place after a line break
lineStart(text, i) == i = 1 \/ At(text, i - 1) \in LineTerminators

\* (model|datasource|generator|enum)\s+\w+\s*\{ tried at position i
prismaSignatureAt(text, i) ==
    \E keyword \in {"model", "datasource", "generator", "enum"} :
        Lit(text,
            Star(text, Plus(text, Plus(text, Lit(text, i, keyword), SpaceChars), WordChars),
                 SpaceChars),
            "{") # 0

\* CREATE\s+(TABLE|TYPE) under the i flag, tried at position i
sqlSignatureAt(text, i) ==
    \E word \in {"TABLE", "TYPE"} :
        LitCI(text, Plus(text, LitCI(text, i, "CREATE"), SpaceChars), word) # 0

\* a plausible slip: the SQL signature is looked for first
detectFormatSqlFirst(input) ==
    LET trimmed == trim(input)
    IN  IF \E i \in 1..Len(trimmed) : sqlSignatureAt(trimmed, i) THEN "sql"
        ELSE IF \E i \in 1..Len(trimmed) : lineStart(trimmed, i) /\ prismaSignatureAt(trimmed, i)
        THEN "prisma"
        ELSE "english"

detectFormat(input) ==
    LET trimmed == trim(input)
    IN  IF \E i \in 1..Len(trimmed) : lineStart(trimmed, i) /\ prismaSignatureAt(trimmed, i)
        THEN "prisma"
        ELSE IF \E i \in 1..Len(trimmed) : sqlSignatureAt(trimmed, i) THEN "sql"
        ELSE "english"

(***************************************************************************)
(* generators: helpers shared by zod.ts and types.ts                       *)
(***************************************************************************)

\* the lines of several pieces, one piece after another
RECURSIVE Flatten(_)
Flatten(q) == IF q = <<>> THEN <<>> ELSE Head(q) \o Flatten(Tail(q))

\* lines.push(x) under if (cond)
PushIf(cond, line) == IF cond THEN <<line>> ELSE <<>>

AutoFieldNames == {"createdAt", "updatedAt", "created_at", "updated_at"}

\* a plausible slip: only the camelCase spellings are taken for auto-managed
isAutoFieldCamelOnly(field) == field.isId \/ field.name \in {"createdAt", "updatedAt"}

isAutoField(field) == field.isId \/ field.name \in AutoFieldNames

lowerFirst(str) == IF str = "" THEN "" ELSE LowerChar(Head(str)) \o Tail(str)

\* a plausible slip: the values compared as sets of the same size
arraysEqualAnyOrder(a, b) == Len(a) = Len(b) /\ Range(a) = Range(b)

arraysEqual(a, b) == Len(a) = Len(b) /\ \A i \in 1..Len(a) : a[i] = b[i]

\* schema.enums.find((e) => field.enumValues && arraysEqual(e.values, field.enumValues))
topEnumOf(field, schema) ==
    LET hits == {k \in 1..Len(schema.enums) :
                    field.enumValues # Absent
                    /\ arraysEqual(schema.enums[k].values, field.enumValues[1])}
    IN  IF hits = {} THEN Absent
        ELSE Some(schema.enums[CHOOSE k \in hits : \A j \in hits : k <= j])

\* values.map((v) => `"${v}"`).join(sep)
quotedValues(values, sep) == Join(MapSeq(LAMBDA v : "\"" \o v \o "\"", values), sep)

(***************************************************************************)
(* zod.ts                                                                  *)
(***************************************************************************)

\* a plausible slip: under strictMode every string is constrained, required or not
zodBaseTypeStrictAnyString(field, schema, strictMode) ==
    IF field.isId THEN "z.string().uuid()"
    ELSE CASE field.type = "string" ->
                  IF strictMode THEN "z.string().min(1)" ELSE "z.string()"
           [] field.type = "number" -> "z.number()"
           [] field.type = "boolean" -> "z.boolean()"
           [] field.type \in {"date", "datetime"} -> "z.coerce.date()"
           [] field.type = "enum" ->
                  IF topEnumOf(field, schema) # Absent
                  THEN lowerFirst(topEnumOf(field, schema)[1].name) \o "Schema"
                  ELSE IF field.enumValues # Absent /\ Len(field.enumValues[1]) > 0
                  THEN "z.enum([" \o quotedValues(field.enumValues[1], ", ") \o "])"
                  ELSE "z.string()"
           [] field.type = "json" -> "z.record(z.unknown())"
           [] OTHER -> "z.string()"

zodBaseType(field, schema, strictMode) ==
    IF field.isId THEN "z.string().uuid()"
    ELSE CASE field.type = "string" ->
                  IF strictMode /\ field.isRequired THEN "z.string().min(1)" ELSE "z.string()"
           [] field.type = "number" -> "z.number()"
           [] field.type = "boolean" -> "z.boolean()"
           [] field.type \in {"date", "datetime"} -> "z.coerce.date()"
           [] field.type = "enum" ->
                  IF topEnumOf(field, schema) # Absent
                  THEN lowerFirst(topEnumOf(field, schema)[1].name) \o "Schema"
                  ELSE IF field.enumValues # Absent /\ Len(field.enumValues[1]) > 0
                  THEN "z.enum([" \o quotedValues(field.enumValues[1], ", ") \o "])"
                  ELSE "z.string()"
           [] field.type = "json" -> "z.record(z.unknown())"
           [] OTHER -> "z.string()"

\* a plausible slip: the optional marker put on the element, inside the array
zodFieldTypeOptionalInside(field, schema, strictMode) ==
    LET base == zodBaseType(field, schema, strictMode)
        marked == IF field.isRequired THEN base ELSE base \o ".optional()"
    IN  IF field.isList THEN "z.array(" \o marked \o ")" ELSE marked

zodFieldType(field, schema, strictMode) ==
    LET base == zodBaseType(field, schema, strictMode)
        listed == IF field.isList THEN "z.array(" \o base \o ")" ELSE base
    IN  IF field.isRequired THEN listed ELSE listed \o ".optional()"

\* a plausible slip: the enum constructs are left without their comment
zodEnumLinesUncommented(enumDef, includeComments) ==
    <<"export const " \o lowerFirst(enumDef.name) \o "Schema = z.enum(["
          \o quotedValues(enumDef.values, ", ") \o "]);",
      "export type " \o enumDef.name \o " = z.infer<typeof "
          \o lowerFirst(enumDef.name) \o "Schema>;",
      "">>

\* the lines pushed for one enum
zodEnumLines(enumDef, includeComments) ==
    PushIf(includeComments, "/** " \o enumDef.name \o " enum values */")
        \o <<"export const " \o lowerFirst(enumDef.name) \o "Schema = z.enum(["
                 \o quotedValues(enumDef.values, ", ") \o "]);",
             "export type " \o enumDef.name \o " = z.infer<typeof "
                 \o lowerFirst(enumDef.name) \o "Schema>;",
             "">>

zodObjectLines(fields, schema, strictMode) ==
    MapSeq(LAMBDA field : "  " \o field.name \o ": "
                              \o zodFieldType(field, schema, strictMode) \o ",",
           fields)

\* the lines pushed for one model
zodModelLines(model, schema, config) ==
    LET name == model.name
        dataFields == SeqFilter(model.fields, LAMBDA f : f.type # "relation")
        createFields == SeqFilter(dataFields, LAMBDA f : ~isAutoField(f))
    IN  PushIf(config.includeComments, "/** Full " \o name \o " schema with all fields */")
            \o <<"export const " \o lowerFirst(name) \o "Schema = z.object({">>
            \o zodObjectLines(dataFields, schema, config.strictMode)
            \o <<"});", "">>
            \o PushIf(config.includeComments, "/** Schema for creating a new " \o name \o " */")
            \o <<"export const create" \o name \o "Schema = z.object({">>
            \o zodObjectLines(createFields, schema, config.strictMode)
            \o <<"});", "">>
            \o PushIf(config.includeComments,
                      "/** Schema for updating a " \o name \o " (all fields optional) */")
            \o <<"export const update" \o name \o "Schema = create" \o name
                     \o "Schema.partial();",
                 "",
                 "export type " \o name \o " = z.infer<typeof " \o lowerFirst(name)
                     \o "Schema>;",
                 "export type Create" \o name \o "Input = z.infer<typeof create" \o name
                     \o "Schema>;",
                 "export type Update" \o name \o "Input = z.infer<typeof update" \o name
                     \o "Schema>;",
                 "">>

\* the array lines, before lines.join("\n")
zodLines(schema, config) ==
    <<"import { z } from \"zod\";", "">>
        \o Flatten(MapSeq(LAMBDA e : zodEnumLines(e, config.includeComments), schema.enums))
        \o Flatten(MapSeq(LAMBDA m : zodModelLines(m, schema, config), schema.models))

\* a plausible slip: lines declared outside the function, so that a call
\* starts from what the call before it left
generateZodSchemasKeepingLines(schema, config) ==
    Join((IF genOut = "" THEN <<>> ELSE <<genOut>>) \o zodLines(schema, config), "\n")

generateZodSchemas(schema, config) == Join(zodLines(schema, config), "\n")

(***************************************************************************)
(* types.ts                                                                *)
(***************************************************************************)

tsBaseType(field, modelName, schema) ==
    IF field.isId THEN modelName \o "Id"
    ELSE CASE field.type = "string" -> "string"
           [] field.type = "number" -> "number"
           [] field.type = "boolean" -> "boolean"
           [] field.type \in {"date", "datetime"} -> "Date"
           [] field.type = "enum" ->
                  IF topEnumOf(field, schema) # Absent
                  THEN topEnumOf(field, schema)[1].name
                  ELSE IF field.enumValues # Absent /\ Len(field.enumValues[1]) > 0
                  THEN quotedValues(field.enumValues[1], " | ")
                  ELSE "string"
           [] field.type = "json" -> "Record<string, unknown>"
           [] OTHER -> "string"

tsFieldType(field, modelName, schema) ==
    IF field.isList THEN tsBaseType(field, modelName, schema) \o "[]"
    ELSE tsBaseType(field, modelName, schema)

tsMemberLine(field, modelName, schema) ==
    "  " \o field.name \o (IF field.isRequired THEN "" ELSE "?") \o ": "
         \o tsFieldType(field, modelName, schema) \o ";"

tsEnumLines(enumDef, includeComments) ==
    PushIf(includeComments, "/** " \o enumDef.name \o " enum */")
        \o <<"export type " \o enumDef.name \o " = " \o quotedValues(enumDef.values, " | ")
                 \o ";",
             "">>

tsFullLines(model, schema, includeComments) ==
    PushIf(includeComments, "/** Full " \o model.name \o " entity */")
        \o <<"export interface " \o model.name \o " {">>
        \o Flatten(MapSeq(LAMBDA field :
                              PushIf(includeComments /\ field.description # Absent
                                         /\ field.description # Some(""),
                                     "  /** " \o Concat(field.description) \o " */")
                                  \o <<tsMemberLine(field, model.name, schema)>>,
                          SeqFilter(model.fields, LAMBDA f : f.type # "relation")))
        \o <<"}", "">>

tsCreateLines(model, schema, includeComments) ==
    LET createFields == SeqFilter(model.fields,
                                  LAMBDA f : f.type # "relation" /\ ~isAutoField(f))
    IN  PushIf(includeComments, "/** Input for creating a new " \o model.name \o " */")
            \o <<"export interface Create" \o model.name \o "Input {">>
            \o MapSeq(LAMBDA field : tsMemberLine(field, model.name, schema), createFields)
            \o <<"}", "">>

tsUpdateLines(model, includeComments) ==
    PushIf(includeComments,
           "/** Input for updating a " \o model.name \o " (all fields optional) */")
        \o <<"export type Update" \o model.name \o "Input = Partial<Create" \o model.name
                 \o "Input>;",
             "">>

tsRelationLines(model, includeComments) ==
    LET relationFields == SeqFilter(model.fields,
                                    LAMBDA f : f.type = "relation" /\ f.relation # Absent)
    IN  IF Len(relationFields) = 0 THEN <<>>
        ELSE PushIf(includeComments, "/** " \o model.name \o " with all relations loaded */")
                 \o <<"export interface " \o model.name \o "WithRelations extends "
                          \o model.name \o " {">>
                 \o MapSeq(LAMBDA field :
                               IF field.isList
                               THEN "  " \o field.name \o ": " \o field.relation[1].model
                                        \o "[];"
                               ELSE "  " \o field.name
                                        \o (IF field.isRequired THEN "" ELSE "?") \o ": "
                                        \o field.relation[1].model \o ";",
                           relationFields)
                 \o <<"}", "">>

\* the heading of the utility types; the source draws its rule with box
\* characters, which a TLA+ string cannot spell: a hyphen stands for each
tsUtilityLines ==
    <<"// --- Utility Types -------------------------------------------------------",
      "",
      "export interface Paginated<T> {",
      "  items: T[];",
      "  nextCursor?: string;",
      "  total: number;",
      "}",
      "",
      "export type SortDirection = \"asc\" | \"desc\";",
      "",
      "export interface SortBy<T> {",
      "  field: keyof T;",
      "  direction: SortDirection;",
      "}">>

\* the array lines, before lines.join("\n")
tsLines(schema, config) ==
    Flatten(MapSeq(LAMBDA e : tsEnumLines(e, config.includeComments), schema.enums))
        \o MapSeq(LAMBDA m : "export type " \o m.name \o "Id = string & { __brand: \""
                                 \o m.name \o "Id\" };",
                  schema.models)
        \o <<"">>
        \o Flatten(MapSeq(LAMBDA m : tsFullLines(m, schema, config.includeComments),
                          schema.models))
        \o Flatten(MapSeq(LAMBDA m : tsCreateLines(m, schema, config.includeComments),
                          schema.models))
        \o Flatten(MapSeq(LAMBDA m : tsUpdateLines(m, config.includeComments), schema.models))
        \o Flatten(MapSeq(LAMBDA m : tsRelationLines(m, config.includeComments),
                          schema.models))
        \o tsUtilityLines

generateTypeDefinitions(schema, config) == Join(tsLines(schema, config), "\n")

(***************************************************************************)
(* splitColumns on its own: every body over a small alphabet               *)
(***************************************************************************)

MaxBodyLen == 5

BodyAlphabet == {"a", "(", ")", ",", " "}

RECURSIVE StringsOfLen(_, _)
StringsOfLen(alphabet, n) ==
    IF n = 0 THEN {""}
    ELSE {s \o c : s \in StringsOfLen(alphabet, n - 1), c \in alphabet}

ExampleBodies == {"price DECIMAL(10,2) NOT NULL, sku VARCHAR(100)"}

SplitBodies ==
    UNION {StringsOfLen(BodyAlphabet, n) : n \in 0..MaxBodyLen} \cup ExampleBodies

SplitIdle ==
    /\ splitBody = ""
    /\ splitOut = <<>>
    /\ splitPc = "idle"

SplitCall ==
    /\ splitPc = "call"
    /\ splitOut' = splitColumns(splitBody)
    /\ splitPc' = "done"
    /\ UNCHANGED splitBody

(***************************************************************************)
(* parseSqlSchema: the input texts.  A text is written from a list of      *)
(* statements; each part records, beside its text, what it stands for, so  *)
(* that what the parser returns can be compared with what was written.     *)
(***************************************************************************)

MaxTables == 2

ColName(text, camel, keywordLike) ==
    [text |-> text, camel |-> camel, keywordLike |-> keywordLike]

\* column names; keywordLike: the name begins with the letters of a
\* table-level constraint keyword
ColNames ==
    {ColName("id", "id", FALSE), ColName("user_id", "userId", FALSE),
     ColName("\"Email\"", "email", FALSE),
     ColName("index_no", "indexNo", TRUE), ColName("checked_at", "checkedAt", TRUE),
     ColName("unique_code", "uniqueCode", TRUE)}

ColType(text, raw, scalar) == [text |-> text, raw |-> raw, scalar |-> scalar]

\* declared types: the text, the bare type name and the FieldType it stands
\* for when no enum of that name is declared
ColTypes ==
    {ColType("UUID", "UUID", "string"), ColType("VARCHAR(255)", "VARCHAR", "string"),
     ColType("DECIMAL(10,2)", "DECIMAL", "number"), ColType("timestamp", "timestamp", "datetime"),
     ColType("SERIAL", "SERIAL", "number"), ColType("jsonb", "jsonb", "json"),
     ColType("order_status", "order_status", "string"),
     ColType("Order_Status", "Order_Status", "string")}

ColRest(text, pk, serial, unique, notNull, ref, refPascal, default) ==
    [text |-> text, pk |-> pk, serial |-> serial, unique |-> unique, notNull |-> notNull,
     ref |-> ref, refPascal |-> refPascal, default |-> default]

\* what follows the type: the text, whether it holds PRIMARY KEY, SERIAL,
\* UNIQUE, NOT NULL, the table it REFERENCES ("" if none) and its DEFAULT
ColRests ==
    {ColRest("", FALSE, FALSE, FALSE, FALSE, "", "", Absent),
     ColRest(" PRIMARY KEY", TRUE, FALSE, FALSE, FALSE, "", "", Absent),
     ColRest(" primary key DEFAULT gen_random_uuid()", TRUE, FALSE, FALSE, FALSE, "", "",
             Some("gen_random_uuid()")),
     ColRest(" NOT NULL", FALSE, FALSE, FALSE, TRUE, "", "", Absent),
     ColRest(" NOT NULL UNIQUE", FALSE, FALSE, TRUE, TRUE, "", "", Absent),
     ColRest(" unique", FALSE, FALSE, TRUE, FALSE, "", "", Absent),
     ColRest(" SERIAL DEFAULT VALUE", FALSE, TRUE, FALSE, FALSE, "", "", Some("VALUE")),
     ColRest(" NOT NULL DEFAULT 'pending'", FALSE, FALSE, FALSE, TRUE, "", "", Some("pending")),
     ColRest(" REFERENCES users(id)", FALSE, FALSE, FALSE, FALSE, "users", "Users", Absent),
     ColRest(" NOT NULL references order_items (id)", FALSE, FALSE, FALSE, TRUE,
             "order_items", "OrderItems", Absent)}

NoName == ColName("", "", FALSE)
NoType == ColType("", "", "")
NoRest == ColRest("", FALSE, FALSE, FALSE, FALSE, "", "", Absent)

Column(name, type, rest) ==
    [kind |-> "column", text |-> name.text \o " " \o type.text \o rest.text,
     name |-> name, type |-> type, rest |-> rest]

Constraint(text) ==
    [kind |-> "constraint", text |-> text, name |-> NoName, type |-> NoType, rest |-> NoRest]

ColumnDefs == {Column(n, t, r) : n \in ColNames, t \in ColTypes, r \in ColRests}

\* table-level constraints, each starting with one of the six keywords
ConstraintDefs ==
    {Constraint("PRIMARY KEY (id)"), Constraint("primary  key (id)"),
     Constraint("FOREIGN KEY (user_id) REFERENCES users(id)"),
     Constraint("UNIQUE (email)"), Constraint("INDEX idx_email (email)"),
     Constraint("CHECK (price > 0)"), Constraint("CONSTRAINT pk PRIMARY KEY (id)")}

TableName(text, pascal) == [text |-> text, pascal |-> pascal]

TableStmt(name, ifNotExists, defs, sep, term) ==
    [kind |-> "table", name |-> name, ifNotExists |-> ifNotExists, defs |-> defs,
     sep |-> sep, values |-> <<>>, term |-> term]

EnumStmt(name, values, term) ==
    [kind |-> "enum", name |-> TableName(name, name), ifNotExists |-> FALSE, defs |-> <<>>,
     sep |-> ", ", values |-> values, term |-> term]

RenderStmt(st) ==
    IF st.kind = "enum"
    THEN "CREATE TYPE " \o st.name.text \o " AS ENUM ("
             \o Join([k \in 1..Len(st.values) |-> "'" \o st.values[k] \o "'"], st.sep)
             \o ")" \o st.term
    ELSE "CREATE TABLE " \o (IF st.ifNotExists THEN "IF NOT EXISTS " ELSE "")
             \o st.name.text \o " ("
             \o Join([k \in 1..Len(st.defs) |-> st.defs[k].text], st.sep)
             \o ")" \o st.term

RenderScript(stmts) == Concat([k \in 1..Len(stmts) |-> RenderStmt(stmts[k])])

OrderStatus(term) == EnumStmt("order_status", <<"pending", "shipped">>, term)

\* one table of one definition, alone, or with the enum declared before it or
\* after it
OneDefScripts ==
    {<<TableStmt(TableName("orders", "Orders"), FALSE, <<d>>, ", ", ";")>> :
        d \in ColumnDefs \cup ConstraintDefs}
    \cup
    {<<OrderStatus(";\n"), TableStmt(TableName("orders", "Orders"), FALSE, <<d>>, ", ", ";")>> :
        d \in {c \in ColumnDefs : c.type.raw \in {"order_status", "Order_Status", "UUID"}}}
    \cup
    {<<TableStmt(TableName("orders", "Orders"), FALSE, <<d>>, ", ", ";\n"), OrderStatus(";")>> :
        d \in {c \in ColumnDefs : c.type.raw \in {"order_status", "Order_Status", "UUID"}}}

IdUuidPk == Column(ColName("id", "id", FALSE), ColType("UUID", "UUID", "string"),
                   ColRest(" PRIMARY KEY", TRUE, FALSE, FALSE, FALSE, "", "", Absent))
EmailVarchar == Column(ColName("email", "email", FALSE),
                       ColType("VARCHAR(255)", "VARCHAR", "string"),
                       ColRest(" NOT NULL UNIQUE", FALSE, FALSE, TRUE, TRUE, "", "", Absent))
PriceDecimal == Column(ColName("unit_price", "unitPrice", FALSE),
                       ColType("DECIMAL(10,2)", "DECIMAL", "number"),
                       ColRest(" NOT NULL", FALSE, FALSE, FALSE, TRUE, "", "", Absent))
OrderRef == Column(ColName("order_id", "orderId", FALSE), ColType("UUID", "UUID", "string"),
                   ColRest(" NOT NULL REFERENCES orders(id)", FALSE, FALSE, FALSE, TRUE,
                           "orders", "Orders", Absent))

\* whole tables, to be written one after another
Tables(term) ==
    {TableStmt(TableName("customers", "Customers"), FALSE, <<IdUuidPk, EmailVarchar>>, ", ", term),
     TableStmt(TableName("order_items", "OrderItems"), TRUE,
               <<IdUuidPk, OrderRef, PriceDecimal, Constraint("UNIQUE (order_id)")>>,
               ",\n  ", term),
     TableStmt(TableName("Tags", "Tags"), FALSE, <<IdUuidPk>>, ", ", term)}

\* how a statement ends: with a semicolon, or with a line break alone
Terminators == {";\n", "\n"}

RECURSIVE TableScripts(_)
TableScripts(n) ==
    IF n = 0 THEN {<<>>}
    ELSE {Append(q, t) : q \in TableScripts(n - 1), t \in UNION {Tables(e) : e \in Terminators}}

\* the table of section 8 of the specification, as written there
CustomersScript ==
    <<TableStmt(TableName("customers", "Customers"), FALSE, <<IdUuidPk, EmailVarchar>>, ", ", "")>>

SqlScripts ==
    OneDefScripts \cup UNION {TableScripts(n) : n \in 1..MaxTables} \cup {CustomersScript}

EmptySchema == [models |-> <<>>, enums |-> <<>>]

SqlIdle ==
    /\ sqlStmts = <<>>
    /\ sqlInput = ""
    /\ sqlOut = EmptySchema
    /\ sqlPc = "idle"

SqlCall ==
    /\ sqlPc = "call"
    /\ sqlOut' = parseSqlSchema(sqlInput)
    /\ sqlPc' = "done"
    /\ UNCHANGED <<sqlStmts, sqlInput>>

(***************************************************************************)
(* parsePrismaSchema: the input texts.  A text is written from a list of   *)
(* blocks; each line records, beside its text, what it stands for.         *)
(***************************************************************************)

MaxModelLines == 3
MaxBlocks == 2

\* a line "<name> <Type>...": its text, the name, the type token, and
\* whether it carries [], ?, @id and @unique
FieldLine(text, name, type, list, optional, id, unique) ==
    [kind |-> "field", text |-> text, name |-> name, type |-> type, list |-> list,
     optional |-> optional, id |-> id, unique |-> unique]

\* a line inside a model block that is no "<name> <Type>"
OtherLine(kind, text) ==
    [kind |-> kind, text |-> text, name |-> "", type |-> "", list |-> FALSE,
     optional |-> FALSE, id |-> FALSE, unique |-> FALSE]

IdLine == FieldLine("id        String   @id @default(cuid())", "id", "String",
                    FALSE, FALSE, TRUE, FALSE)
EmailLine == FieldLine("email     String   @unique", "email", "String",
                       FALSE, FALSE, FALSE, TRUE)
NameLine == FieldLine("name      String", "name", "String", FALSE, FALSE, FALSE, FALSE)
BioLine == FieldLine("bio       String?", "bio", "String", FALSE, TRUE, FALSE, FALSE)
RoleLine == FieldLine("role      Role     @default(USER)", "role", "Role",
                      FALSE, FALSE, FALSE, FALSE)
RolesLine == FieldLine("roles Role[]", "roles", "Role", TRUE, FALSE, FALSE, FALSE)
StatusLine == FieldLine("status\tStatus?", "status", "Status", FALSE, TRUE, FALSE, FALSE)
\* a name with no type token
CreatedAtLine == FieldLine("createdAt DateTime @default(now())", "createdAt", "DateTime",
                           FALSE, FALSE, FALSE, FALSE)
\* a type token that is a name every object inherits
OwnerLine == FieldLine("owner     constructor", "owner", "constructor",
                       FALSE, FALSE, FALSE, FALSE)
\* the two sides of a relation, each a list
PostsLine == FieldLine("posts     Post[]", "posts", "Post", TRUE, FALSE, FALSE, FALSE)
AuthorsLine == FieldLine("authors User[]", "authors", "User", TRUE, FALSE, FALSE, FALSE)
NoTypeLine == OtherLine("mismatch", "title")

FieldLines ==
    {IdLine, EmailLine, NameLine, BioLine, RoleLine, RolesLine, StatusLine,
     FieldLine("posts     Post[]", "posts", "Post", TRUE, FALSE, FALSE, FALSE),
     FieldLine("tags String[] @unique", "tags", "String", TRUE, FALSE, FALSE, TRUE),
     FieldLine("author    User?    @relation(fields: [authorId], references: [id])",
               "author", "User", FALSE, TRUE, FALSE, FALSE),
     FieldLine("note      String   // optional?", "note", "String", FALSE, TRUE, FALSE, FALSE),
     FieldLine("slug String @unique @id", "slug", "String", FALSE, FALSE, TRUE, TRUE),
     FieldLine("count Int? @default(0)", "count", "Int", FALSE, TRUE, FALSE, FALSE),
     FieldLine("items Json[]?  @id", "items", "Json", TRUE, TRUE, TRUE, FALSE),
     CreatedAtLine, OwnerLine}

\* the text written between "@default(" and its matching ")" on a line
DefaultWritten(text) ==
    CASE text = IdLine.text -> Some("cuid()")
      [] text = RoleLine.text -> Some("USER")
      [] text = "count Int? @default(0)" -> Some("0")
      [] text = CreatedAtLine.text -> Some("now()")
      [] OTHER -> Absent

MismatchLines ==
    {NoTypeLine, OtherLine("mismatch", "id: String"), OtherLine("mismatch", "@map(\"users\")"),
     OtherLine("mismatch", "String?"), OtherLine("mismatch", "- id String")}

\* lines the scanner never collects
SkippedLines ==
    {OtherLine("skipped", ""), OtherLine("skipped", "// a comment"),
     OtherLine("skipped", "@@index([email])"), OtherLine("skipped", "//id String")}

ModelBlock(name, lines, closed) ==
    [type |-> "model", name |-> name, lines |-> lines, values |-> <<>>, closed |-> closed]

\* an enum block: the lines as written and the values they declare
EnumBlock(name, lines, values, closed) ==
    [type |-> "enum", name |-> name, lines |-> lines, values |-> values, closed |-> closed]

RenderBlock(b) ==
    b.type \o " " \o b.name \o " {\n"
        \o Concat([k \in 1..Len(b.lines) |-> "  " \o b.lines[k].text \o "\n"])
        \o (IF b.closed THEN "}\n" ELSE "")

RenderDoc(blocks) == Join([k \in 1..Len(blocks) |-> RenderBlock(blocks[k])], "\n")

Doc(blocks) == [described |-> TRUE, blocks |-> blocks, text |-> RenderDoc(blocks)]

RECURSIVE SeqsUpTo(_, _)
SeqsUpTo(S, n) ==
    IF n = 0 THEN {<<>>}
    ELSE SeqsUpTo(S, n - 1)
             \cup {Append(q, x) : q \in {r \in SeqsUpTo(S, n - 1) : Len(r) = n - 1}, x \in S}

\* one closed model block of up to MaxModelLines lines
LineDocs ==
    {Doc(<<ModelBlock("User", lines, TRUE)>>) :
        lines \in SeqsUpTo({IdLine, EmailLine, NameLine, BioLine, NoTypeLine}, MaxModelLines)}

\* one closed model block: a line of any kind between two fields
OneLineDocs ==
    {Doc(<<ModelBlock("Post_2", <<IdLine, l, NameLine>>, TRUE)>>) :
        l \in FieldLines \cup MismatchLines \cup SkippedLines}

RoleEnum(closed) ==
    EnumBlock("Role", <<OtherLine("value", "ADMIN"), OtherLine("value", "USER")>>,
              <<"ADMIN", "USER">>, closed)
StatusEnum ==
    EnumBlock("Status",
              <<OtherLine("skipped", "// the states"), OtherLine("value", "ACTIVE"),
                OtherLine("skipped", ""), OtherLine("value", "BANNED")>>,
              <<"ACTIVE", "BANNED">>, TRUE)

\* up to MaxBlocks blocks, models and enums in any order, a block closed or
\* left open
BlockPool ==
    {ModelBlock("User", <<RoleLine>>, TRUE), ModelBlock("User", <<NameLine, RolesLine>>, TRUE),
     ModelBlock("Account", <<StatusLine, RoleLine>>, TRUE),
     ModelBlock("Draft", <<RoleLine>>, FALSE),
     ModelBlock("User", <<PostsLine>>, TRUE), ModelBlock("Post", <<AuthorsLine>>, TRUE),
     RoleEnum(TRUE), RoleEnum(FALSE), StatusEnum}

BlockDocs == {Doc(blocks) : blocks \in SeqsUpTo(BlockPool, MaxBlocks) \ {<<>>}}

\* the Blog Platform example of src/examples, as bundled
BlogPlatform == [described |-> FALSE, blocks |-> <<>>, text |-> "model User {\n  id        String   @id @default(cuid())\n  email     String   @unique\n  name      String\n  bio       String?\n  avatarUrl String?\n  role      Role     @default(AUTHOR)\n  posts     Post[]\n  comments  Comment[]\n  createdAt DateTime @default(now())\n  updatedAt DateTime @updatedAt\n}\n\nmodel Post {\n  id          String    @id @default(cuid())\n  title       String\n  slug        String    @unique\n  content     String\n  excerpt     String?\n  published   Boolean   @default(false)\n  publishedAt DateTime?\n  author      User      @relation(fields: [authorId], references: [id])\n  authorId    String\n  comments    Comment[]\n  tags        Tag[]\n  createdAt   DateTime  @default(now())\n  updatedAt   DateTime  @updatedAt\n}\n\nmodel Comment {\n  id        String   @id @default(cuid())\n  body      String\n  author    User     @relation(fields: [authorId], references: [id])\n  authorId  String\n  post      Post     @relation(fields: [postId], references: [id])\n  postId    String\n  createdAt DateTime @default(now())\n}\n\nmodel Tag {\n  id    String @id @default(cuid())\n  name  String @unique\n  slug  String @unique\n  posts Post[]\n}\n\nenum Role {\n  ADMIN\n  EDITOR\n  AUTHOR\n}"]

\* lines written outside every block
LooseBlock(lines) ==
    [type |-> "loose", name |-> "", lines |-> lines, values |-> <<>>, closed |-> FALSE]

RenderSegment(b) ==
    IF b.type = "loose" THEN Concat([k \in 1..Len(b.lines) |-> b.lines[k].text \o "\n"])
    ELSE RenderBlock(b)

\* the pieces a text is written from, one after another: blocks closed or
\* left open, a closing brace on a line of its own, lines outside every block
SegmentPool ==
    {ModelBlock("User", <<NameLine>>, TRUE), ModelBlock("Draft", <<IdLine>>, FALSE),
     ModelBlock("Log", <<OtherLine("mismatch", "} // end"), NameLine>>, TRUE),
     RoleEnum(TRUE), RoleEnum(FALSE),
     LooseBlock(<<OtherLine("close", "}")>>),
     LooseBlock(<<OtherLine("outside", "generator client {"), OtherLine("close", "  }  ")>>),
     LooseBlock(<<OtherLine("outside", "provider = x"), OtherLine("outside", "}}"),
                  OtherLine("outside", "")>>)}

MaxSegments == 3

ScanDoc(segments) ==
    [described |-> FALSE, blocks |-> segments,
     text |-> Concat([k \in 1..Len(segments) |-> RenderSegment(segments[k])])]

ScanDocs == {ScanDoc(segments) : segments \in SeqsUpTo(SegmentPool, MaxSegments) \ {<<>>}}

PrismaDocs == LineDocs \cup OneLineDocs \cup BlockDocs \cup {BlogPlatform} \cup ScanDocs

PrismaIdle ==
    /\ prDoc = Doc(<<>>)
    /\ prInput = ""
    /\ prLines = <<>>
    /\ prLine = 0
    /\ currentBlock = Absent
    /\ prModels = <<>>
    /\ prEnums = <<>>
    /\ prPc = "idle"

\* const lines = input.split("\n"), and the loop's variables declared
PrismaSplit ==
    /\ prPc = "call"
    /\ prLines' = splitOn(prInput, "\n")
    /\ prPc' = "scan"
    /\ UNCHANGED <<prDoc, prInput, prLine, currentBlock, prModels, prEnums>>
    /\ UNCHANGED <<splitVars, sqlVars, genVars, dfVars, psVars, rlVars, epVars, pgVars>>

\* one turn of for (const line of lines)
PrismaLine ==
    /\ prPc = "scan"
    /\ prLine < Len(prLines)
    /\ LET next == prismaStep([currentBlock |-> currentBlock, models |-> prModels,
                               enums |-> prEnums], prLines[prLine + 1])
       IN  /\ currentBlock' = next.currentBlock
           /\ prModels' = next.models
           /\ prEnums' = next.enums
    /\ prLine' = prLine + 1
    /\ UNCHANGED <<prDoc, prInput, prLines, prPc>>
    /\ UNCHANGED <<splitVars, sqlVars, genVars, dfVars, psVars, rlVars, epVars, pgVars>>

\* return { models, enums }
PrismaReturn ==
    /\ prPc = "scan"
    /\ prLine = Len(prLines)
    /\ prPc' = "done"
    /\ UNCHANGED <<prDoc, prInput, prLines, prLine, currentBlock, prModels, prEnums>>
    /\ UNCHANGED <<splitVars, sqlVars, genVars, dfVars, psVars, rlVars, epVars, pgVars>>

(***************************************************************************)
(* The generators: the schemas, configurations and targets handed to       *)
(* generateFromTemplate                                                    *)
(***************************************************************************)

MaxFields == 3
\* the calls made with one schema and config
MaxCalls == 2

GenerationTargets == {"zod", "trpc", "react-form", "types"}
TemplateTargets == {"zod", "types"}

Config(includeComments, strictMode) ==
    [includeComments |-> includeComments, strictMode |-> strictMode]
Configs == {Config(c, s) : c \in BOOLEAN, s \in BOOLEAN}

RoleValues == <<"ADMIN", "USER">>
RoleTopEnum == [name |-> "Role", values |-> RoleValues]

GenId == Field("id", "string", TRUE, TRUE, TRUE, FALSE)
GenEmail == [Field("email", "string", TRUE, TRUE, FALSE, FALSE)
                 EXCEPT !.description = Some("where to write to")]
GenCreatedAt == [Field("createdAt", "datetime", TRUE, FALSE, FALSE, FALSE)
                     EXCEPT !.default = Some("now()")]
GenUpdatedSnake == Field("updated_at", "date", FALSE, FALSE, FALSE, FALSE)
GenAuthor ==
    [Field("author", "relation", TRUE, FALSE, FALSE, FALSE)
         EXCEPT !.relation = Some([model |-> "User", type |-> "one-to-one",
                                   foreignKey |-> Some("authorId")])]
GenTags == Field("tags", "string", FALSE, FALSE, FALSE, TRUE)

\* a relation-typed field without relation descriptor: FieldSchema accepts it
GenEditor == Field("editor", "relation", TRUE, FALSE, FALSE, FALSE)
\* a relation that may be missing, and a list of them marked not required
GenReviewer ==
    [Field("reviewer", "relation", FALSE, FALSE, FALSE, FALSE)
         EXCEPT !.relation = Some([model |-> "User", type |-> "one-to-one",
                                   foreignKey |-> Absent])]
GenWatchers ==
    [Field("watchers", "relation", FALSE, FALSE, FALSE, TRUE)
         EXCEPT !.relation = Some([model |-> "User", type |-> "many-to-many",
                                   foreignKey |-> Absent])]

\* enum-typed fields: the values of a top-level enum, the same values in
\* another order, values of no top-level enum, no value, no list of values,
\* and the same for an id, a list and an optional field
EnumFields ==
    {[Field("role", "enum", TRUE, FALSE, FALSE, FALSE) EXCEPT !.enumValues = Some(RoleValues)],
     [Field("role", "enum", TRUE, FALSE, FALSE, FALSE)
          EXCEPT !.enumValues = Some(<<"USER", "ADMIN">>)],
     [Field("role", "enum", FALSE, FALSE, FALSE, TRUE) EXCEPT !.enumValues = Some(RoleValues)],
     [Field("role", "enum", TRUE, FALSE, TRUE, FALSE) EXCEPT !.enumValues = Some(RoleValues)],
     [Field("level", "enum", TRUE, FALSE, FALSE, FALSE)
          EXCEPT !.enumValues = Some(<<"ADMIN">>)],
     [Field("level", "enum", FALSE, FALSE, FALSE, FALSE)
          EXCEPT !.enumValues = Some(<<"ADMIN", "USER", "GUEST">>)],
     [Field("state", "enum", FALSE, FALSE, FALSE, TRUE)
          EXCEPT !.enumValues = Some(<<"open", "closed">>)],
     [Field("kind", "enum", TRUE, FALSE, FALSE, FALSE) EXCEPT !.enumValues = Some(<<>>)],
     Field("kind", "enum", TRUE, FALSE, FALSE, FALSE)}

\* the fields the longer models are made of
CommonFields == {GenId, GenEmail, GenCreatedAt, GenUpdatedSnake, GenAuthor}

\* fields of every type, auto-managed names in all four spellings and
\* spellings that are close but not auto-managed
AllFields ==
    CommonFields \cup
    {GenTags,
     Field("updatedAt", "datetime", TRUE, FALSE, FALSE, FALSE),
     Field("created_at", "string", TRUE, FALSE, FALSE, FALSE),
     Field("CreatedAt", "datetime", TRUE, FALSE, FALSE, FALSE),
     Field("updated", "datetime", FALSE, FALSE, FALSE, FALSE),
     Field("sku", "number", TRUE, TRUE, TRUE, FALSE),
     Field("price", "number", TRUE, FALSE, FALSE, FALSE),
     Field("active", "boolean", FALSE, FALSE, FALSE, FALSE),
     Field("meta", "json", FALSE, FALSE, FALSE, TRUE),
     [Field("role", "enum", TRUE, FALSE, FALSE, FALSE) EXCEPT !.enumValues = Some(RoleValues)],
     [Field("state", "enum", FALSE, FALSE, FALSE, TRUE)
          EXCEPT !.enumValues = Some(<<"open", "closed">>)],
     Field("kind", "enum", TRUE, FALSE, FALSE, FALSE),
     [Field("posts", "relation", TRUE, FALSE, FALSE, TRUE)
          EXCEPT !.relation = Some([model |-> "Post", type |-> "one-to-many",
                                    foreignKey |-> Absent])],
     [Field("owner", "relation", TRUE, FALSE, TRUE, FALSE)
          EXCEPT !.relation = Some([model |-> "User", type |-> "one-to-one",
                                    foreignKey |-> Absent])],
     GenEditor, GenReviewer, GenWatchers,
     Field("nick", "string", FALSE, FALSE, FALSE, FALSE),
     Field("lines", "string", TRUE, FALSE, FALSE, TRUE),
     Field("token", "string", FALSE, TRUE, TRUE, FALSE)}
    \cup EnumFields

\* the top-level enums a schema may declare: two of them with the same
\* values, and one with no value
AccessTopEnum == [name |-> "Access", values |-> RoleValues]
StatusTopEnum == [name |-> "Status", values |-> <<"open", "closed">>]
NoneTopEnum == [name |-> "None", values |-> <<>>]

EnumLists ==
    {<<>>, <<RoleTopEnum>>, <<AccessTopEnum, RoleTopEnum>>, <<StatusTopEnum, RoleTopEnum>>,
     <<StatusTopEnum, NoneTopEnum>>}

GenInput(models, enums, config, target) ==
    [schema |-> [models |-> models, enums |-> enums], config |-> config, target |-> target]

\* one model of up to MaxFields of the common fields
FieldSeqInputs ==
    {GenInput(<<[name |-> "User", fields |-> fields]>>, <<>>, config, target) :
        fields \in SeqsUpTo(CommonFields, MaxFields),
        config \in {Config(TRUE, TRUE), Config(FALSE, FALSE)},
        target \in TemplateTargets}

\* one model: a field of any kind between two others, with an enum declared
OneFieldInputs ==
    {GenInput(<<[name |-> "Post", fields |-> <<GenId, f, GenEmail>>]>>, <<RoleTopEnum>>,
              config, target) :
        f \in AllFields, config \in Configs, target \in GenerationTargets}

\* several models, one of them with no field and one with a lower-case name
ManyModelInputs ==
    {GenInput(<<[name |-> "User", fields |-> <<GenId, GenEmail, GenCreatedAt, GenTags>>],
                [name |-> "Tag", fields |-> <<>>],
                [name |-> "order_item",
                 fields |-> <<GenAuthor, GenUpdatedSnake, GenId, GenTags>>]>>,
              enums, config, target) :
        enums \in {<<>>, <<RoleTopEnum, [name |-> "Status", values |-> <<"open", "closed">>]>>},
        config \in Configs, target \in GenerationTargets}

\* one model: an enum-typed field of any kind after the id, under each list
\* of top-level enums
EnumInputs ==
    {GenInput(<<[name |-> "Member", fields |-> <<GenId, f>>]>>, enums, config, target) :
        f \in EnumFields, enums \in EnumLists,
        config \in {Config(TRUE, TRUE), Config(FALSE, FALSE)}, target \in TemplateTargets}

GenInputs == FieldSeqInputs \cup OneFieldInputs \cup ManyModelInputs \cup EnumInputs

GenIdle ==
    /\ genSchema = [models |-> <<>>, enums |-> <<>>]
    /\ genConfig = Config(TRUE, TRUE)
    /\ genTarget = "zod"
    /\ genOut = ""
    /\ genPc = "idle"
    /\ genPrev = Absent
    /\ genCalls = 0

\* a plausible slip: every target of the enumeration taken for a template target
isTemplateTargetAny(target) == target \in GenerationTargets

\* generators/index.ts
isTemplateTarget(target) == target \in TemplateTargets

Raised == [threw |-> TRUE, value |-> ""]

\* the switch of generateFromTemplate; its default case throws
generateFromTemplate(schema, target, config) ==
    CASE target = "zod" -> Returned(generateZodSchemas(schema, config))
      [] target = "types" -> Returned(generateTypeDefinitions(schema, config))
      [] OTHER -> Raised

\* a call of generateFromTemplate.  The caller
\* may call again with the same schema, target and config: each generator
\* starts from an empty array lines of its own and reads schema and config
\* without writing to them.
GenerateFromTemplate ==
    /\ genPc \in {"call", "done", "thrown"}
    /\ genCalls < MaxCalls
    /\ \E code \in {generateFromTemplate(genSchema, genTarget, genConfig)} :
          /\ genOut' = IF code.threw THEN genOut ELSE code.value
          /\ genPc' = IF code.threw THEN "thrown" ELSE "done"
    /\ genPrev' = IF genPc = "done" THEN Some(genOut) ELSE genPrev
    /\ genCalls' = genCalls + 1
    /\ UNCHANGED <<genSchema, genConfig, genTarget>>

(***************************************************************************)
(* Inputs of detectFormat: texts of up to MaxTextLines lines; each line    *)
(* records whether it was written with the schema-dialect signature at its *)
(* start and whether it holds the SQL signature.                           *)
(***************************************************************************)

MaxTextLines == 2

\* kind: "plain"; "head", a block keyword and a name without the brace;
\* "brace", a line that begins with the brace; "blank"; "indented"
TextLine(text, prisma, sql, kind) ==
    [text |-> text, prisma |-> prisma, sql |-> sql, kind |-> kind]

TextLines ==
    {TextLine("model User {", TRUE, FALSE, "plain"),
     TextLine("datasource db {", TRUE, FALSE, "plain"),
     TextLine("generator client{", TRUE, FALSE, "plain"),
     TextLine("enum  Role_1\t{ ADMIN }", TRUE, FALSE, "plain"),
     TextLine("model A { // CREATE TABLE", TRUE, TRUE, "plain"),
     TextLine("models User {", FALSE, FALSE, "plain"),
     TextLine("Model User {", FALSE, FALSE, "plain"),
     TextLine("model {", FALSE, FALSE, "plain"),
     TextLine("type User {", FALSE, FALSE, "plain"),
     TextLine("my model User {", FALSE, FALSE, "plain"),
     TextLine("  enum Role {", FALSE, FALSE, "indented"),
     TextLine("model User", FALSE, FALSE, "head"),
     TextLine("{", FALSE, FALSE, "brace"),
     TextLine("", FALSE, FALSE, "blank"),
     TextLine("CREATE TABLE users (id INT);", FALSE, TRUE, "plain"),
     TextLine("create type mood as enum ('sad');", FALSE, TRUE, "plain"),
     TextLine("Create \t Table t (", FALSE, TRUE, "plain"),
     TextLine("-- see CREATE TYPE above", FALSE, TRUE, "plain"),
     TextLine("CREATETABLE t", FALSE, FALSE, "plain"),
     TextLine("CREATE INDEX i ON users (id);", FALSE, FALSE, "plain"),
     TextLine("TABLE, CREATE, TYPE", FALSE, FALSE, "plain"),
     TextLine("A users table with a name and an email", FALSE, FALSE, "plain")}

\* the text: lead, then the lines joined by sep; the first line is written
\* at the start of its line
DetectText(lead, lines, sep) ==
    [lines |-> lines, lead |-> lead,
     text |-> lead \o Join([k \in 1..Len(lines) |-> lines[k].text], sep)]

DetectTexts ==
    {DetectText(lead, lines, "\n") :
        lead \in {"", " \n\t"},
        lines \in {q \in SeqsUpTo(TextLines, MaxTextLines) :
                      q # <<>> /\ q[1].kind \notin {"blank", "indented"}}}
    \cup
    {DetectText("", <<l, l>>, "\r\n") : l \in {t \in TextLines : t.kind = "plain"}}

DetectIdle ==
    /\ dfText = DetectText("", <<>>, "\n")
    /\ dfOut = ""
    /\ dfPc = "idle"

DetectFormat ==
    /\ dfPc = "call"
    /\ dfOut' = detectFormat(dfText.text)
    /\ dfPc' = "done"
    /\ UNCHANGED dfText

(***************************************************************************)
(* Inputs of parseSchema: texts of every kind, and format tags inside and  *)
(* outside InputFormat.                                                    *)
(***************************************************************************)

InputFormats == {"prisma", "sql", "english"}

ParseFormats == InputFormats \cup {"graphql", "PRISMA", ""}

ParseTexts ==
    {t.text : t \in {d \in DetectTexts : Len(d.lines) = 1}}
    \cup {Doc(<<b>>).text : b \in BlockPool}
    \cup {Doc(<<RoleEnum(TRUE), ModelBlock("User", <<IdLine, RoleLine, PostsLine>>, TRUE)>>).text}
    \cup {RenderScript(<<OrderStatus(";\n"),
                         TableStmt(TableName("orders", "Orders"), FALSE, <<d>>, ", ", ";")>>) :
             d \in {IdUuidPk, EmailVarchar, PriceDecimal, OrderRef}}
    \cup {RenderScript(CustomersScript), ""}

ParseIdle ==
    /\ psInput = ""
    /\ psFormat = "english"
    /\ psOut = Absent
    /\ psPc = "idle"

ParseSchema ==
    /\ psPc = "call"
    /\ \E r \in {parseSchema(psInput, psFormat)} :
          /\ psOut' = r.value
          /\ psPc' = IF r.threw THEN "thrown" ELSE "done"
    /\ UNCHANGED <<psInput, psFormat>>

(***************************************************************************)
(* lib/rate-limit.ts: the sliding-window limiter.  Time is counted in      *)
(* milliseconds.  store is a function from the keys it holds to their      *)
(* lists of timestamps; beside the keys that take part in the calls it     *)
(* holds a number of other keys, rlOthers, each with the one timestamp     *)
(* OthersStamp.                                                            *)
(***************************************************************************)
MAX_REQUESTS == 20
WINDOW_MS == 60 * 1000
\* the size of store above which a call that was admitted cleans it up
CleanupAbove == 10000

OthersStamp == 0

Request(forwardedFor, realIp) == [forwardedFor |-> forwardedFor, realIp |-> realIp]

\* req.headers.get("x-forwarded-for")?.split(",")[0]?.trim()
\*     ?? req.headers.get("x-real-ip") ?? "unknown"
clientIp(req) ==
    IF req.forwardedFor # Absent THEN trim(splitOn(req.forwardedFor[1], ",")[1])
    ELSE IF req.realIp # Absent THEN req.realIp[1]
    ELSE "unknown"

EmptyStore == [ip \in {} |-> <<>>]

\* store.get(ip) ?? []
storeGet(store, ip) == IF ip \in DOMAIN store THEN store[ip] ELSE <<>>

\* store.set(ip, list)
storeSet(store, ip, list) ==
    [k \in DOMAIN store \cup {ip} |-> IF k = ip THEN list ELSE store[k]]

\* timestamps.filter((t) => now - t < WINDOW_MS)
recentOf(timestamps, now) == SeqFilter(timestamps, LAMBDA t : now - t < WINDOW_MS)

\* Math.ceil(x / d) on integers
ceilDiv(x, d) == -((-x) \div d)

\* the limit test of rateLimit, were it to pass a full window
limitReachedAbove(recent) == Len(recent) > MAX_REQUESTS

\* recent.length >= MAX_REQUESTS
limitReached(recent) == Len(recent) >= MAX_REQUESTS

\* Retry-After, were the quotient rounded down
retryAfterFloor(recent, now) == (recent[1] + WINDOW_MS - now) \div 1000

\* Math.ceil((recent[0] + WINDOW_MS - now) / 1000)
retryAfterOf(recent, now) == ceilDiv(recent[1] + WINDOW_MS - now, 1000)

\* vals.every((t) => now - t > WINDOW_MS)
allExpired(vals, now) == \A k \in 1..Len(vals) : now - vals[k] > WINDOW_MS

\* the cleanup, were it to delete a key as soon as one of its timestamps
\* is out of the window
cleanupSome(store, now) ==
    [k \in {ip \in DOMAIN store : ~(\A j \in 1..Len(store[ip]) : now - store[ip][j] < WINDOW_MS)}
        |-> store[k]]

\* store.forEach((vals, key) => { if (vals.every(...)) store.delete(key) })
cleanup(store, now) ==
    [k \in {ip \in DOMAIN store : ~allExpired(store[ip], now)} |-> store[k]]

TooManyRequests(retryAfter) == Some([status |-> 429, retryAfter |-> retryAfter])

\* rateLimit(req), called when Date.now() is now: the Response it returns
\* (Absent for null) and what it leaves in store
rateLimit(store, others, req, now) ==
    LET ip == clientIp(req)
        recent == recentOf(storeGet(store, ip), now)
    IN  IF limitReached(recent)
        THEN [response |-> TooManyRequests(retryAfterOf(recent, now)),
              store |-> store, others |-> others]
        ELSE LET set == storeSet(store, ip, Append(recent, now))
                 large == Cardinality(DOMAIN set) + others > CleanupAbove
             IN  [response |-> Absent,
                  store |-> IF large THEN cleanup(set, now) ELSE set,
                  others |-> IF large /\ others > 0 /\ now - OthersStamp > WINDOW_MS
                             THEN 0 ELSE others]

\* rateLimit without the cleanup of lines 78-85
rateLimitPlain(store, req, now) ==
    LET ip == clientIp(req)
        recent == recentOf(storeGet(store, ip), now)
    IN  IF limitReached(recent) THEN store
        ELSE storeSet(store, ip, Append(recent, now))

(***************************************************************************)
(* The calls of rateLimit: requests with their headers, made as the clock  *)
(* stands still or goes forward.                                           *)
(***************************************************************************)
MaxRlCalls == 3

Requests ==
    {Request(Some("10.0.0.1, 172.16.0.9"), Absent), Request(Absent, Some("10.0.0.1")),
     Request(Some(" 10.0.0.2"), Some("10.0.0.1")), Request(Absent, Absent)}

ClientIps == {clientIp(req) : req \in Requests}

\* by how many milliseconds the clock has gone forward since the call before
Advances == {0, 1, 1000, WINDOW_MS - 1, WINDOW_MS + 1}

Burst(n, at) == [k \in 1..n |-> at]

\* what store holds before the calls: nothing, or what a burst of admitted
\* calls of one client at OthersStamp has left
StartLists == {<<>>, Burst(MAX_REQUESTS - 1, OthersStamp), Burst(MAX_REQUESTS, OthersStamp)}

StartOthers == {0, CleanupAbove - 1, CleanupAbove}

NoCall == [called |-> FALSE, ip |-> "", at |-> 0, response |-> Absent, due |-> FALSE,
           before |-> EmptyStore]

NoDeadlines == [ip \in ClientIps |-> Absent]

RateIdle ==
    /\ rlNow = 0
    /\ rlStore = EmptyStore
    /\ rlOthers = 0
    /\ rlLast = NoCall
    /\ rlPlain = EmptyStore
    /\ rlAdmitted = [ip \in ClientIps |-> <<>>]
    /\ rlDeadline = NoDeadlines
    /\ rlCalls = 0

\* one call of rateLimit(req) at the time now.  rlPlain follows the calls
\* without the cleanup; rlAdmitted keeps the times of the admitted calls of
\* each client; rlDeadline keeps, for a client rejected and not admitted
\* since, the earliest time a Retry-After it was given runs out
RateLimit(req, now) ==
    \E r \in {rateLimit(rlStore, rlOthers, req, now)} :
        LET ip == clientIp(req)
            admitted == r.response = Absent
            deadline == now + r.response[1].retryAfter * 1000
        IN  /\ rlNow' = now
            /\ rlStore' = r.store
            /\ rlOthers' = r.others
            /\ rlLast' = [called |-> TRUE, ip |-> ip, at |-> now, response |-> r.response,
                          due |-> rlDeadline[ip] # Absent /\ now >= rlDeadline[ip][1],
                          before |-> rlStore]
            /\ rlPlain' = rateLimitPlain(rlPlain, req, now)
            /\ rlAdmitted' = IF admitted THEN [rlAdmitted EXCEPT ![ip] = Append(@, now)]
                             ELSE rlAdmitted
            /\ rlDeadline' = IF admitted THEN [rlDeadline EXCEPT ![ip] = Absent]
                             ELSE IF rlDeadline[ip] = Absent \/ deadline < rlDeadline[ip][1]
                             THEN [rlDeadline EXCEPT ![ip] = Some(deadline)]
                             ELSE rlDeadline
            /\ rlCalls' = rlCalls + 1

\* the time of the next call: the clock has gone forward by one of Advances,
\* or by the Retry-After of the call before
NextTimes ==
    {rlNow + dt : dt \in Advances}
        \cup (IF rlLast.response # Absent
              THEN {rlLast.at + rlLast.response[1].retryAfter * 1000} ELSE {})

RateLimitCall ==
    /\ rlCalls < MaxRlCalls
    /\ \E req \in Requests, now \in NextTimes : now >= rlNow /\ RateLimit(req, now)

(***************************************************************************)
(* JSON.parse: a value of JSON is kept with its kind, t.  An object is a   *)
(* function from its keys to its members; a key written twice keeps the    *)
(* member written last.  The \u escape is not read: no text below has it.  *)
(***************************************************************************)
JNull == [t |-> "null", v |-> ""]
JBool(b) == [t |-> "bool", v |-> b]
JNum(text) == [t |-> "num", v |-> text]
JStr(s) == [t |-> "str", v |-> s]
JArr(q) == [t |-> "arr", v |-> q]
JObj(f) == [t |-> "obj", v |-> f]

JsonSpace == {" ", "\t", "\n", "\r"}
DigitChars == CharsOf(Digits)

JsonFail == [ok |-> FALSE, value |-> JNull, next |-> 0]
JsonAt(value, next) == [ok |-> TRUE, value |-> value, next |-> next]

\* the character an escape stands for ("" where the escape is not read)
Unescaped(c) ==
    CASE c = "\"" -> "\"" [] c = "\\" -> "\\" [] c = "/" -> "/"
      [] c = "n" -> "\n" [] c = "t" -> "\t" [] c = "r" -> "\r"
      [] OTHER -> ""

\* a string from the position after its opening quote on
RECURSIVE jsonString(_, _, _)
jsonString(s, i, acc) ==
    LET e == RunEndNot(s, i, {"\"", "\\", "\n", "\r", "\t"})
    IN  IF e > Len(s) THEN JsonFail
        ELSE IF At(s, e) = "\"" THEN JsonAt(JStr(acc \o SubSeq(s, i, e - 1)), e + 1)
        ELSE IF At(s, e) = "\\" /\ e < Len(s) /\ Unescaped(At(s, e + 1)) # ""
        THEN jsonString(s, e + 2, acc \o SubSeq(s, i, e - 1) \o Unescaped(At(s, e + 1)))
        ELSE JsonFail

\* -? (0 | [1-9][0-9]*) (\. [0-9]+)? ([eE] [+-]? [0-9]+)?
jsonNumber(s, i) ==
    LET a == IF LitAt(s, i, "-") THEN i + 1 ELSE i
        b == IF LitAt(s, a, "0") THEN a + 1 ELSE Plus(s, a, DigitChars)
        c == IF b > 0 /\ LitAt(s, b, ".") THEN Plus(s, b + 1, DigitChars) ELSE b
        d == IF c > 0 /\ (LitAt(s, c, "e") \/ LitAt(s, c, "E"))
             THEN Plus(s, IF LitAt(s, c + 1, "+") \/ LitAt(s, c + 1, "-") THEN c + 2 ELSE c + 1,
                       DigitChars)
             ELSE c
    IN  IF d > 0 THEN JsonAt(JNum(SubSeq(s, i, d - 1)), d) ELSE JsonFail

RECURSIVE jsonValue(_, _)
RECURSIVE jsonElements(_, _, _)
RECURSIVE jsonMembers(_, _, _)

\* the elements of an array from position i on, after "[" or ","
jsonElements(s, i, acc) ==
    CHOOSE out \in
        {IF ~r.ok THEN JsonFail
         ELSE LET j == RunEnd(s, r.next, JsonSpace)
              IN  IF LitAt(s, j, ",") THEN jsonElements(s, j + 1, Append(acc, r.value))
                  ELSE IF LitAt(s, j, "]") THEN JsonAt(JArr(Append(acc, r.value)), j + 1)
                  ELSE JsonFail :
            r \in {jsonValue(s, i)}} : TRUE

\* the members of an object from position i on, after "{" or ","
jsonMembers(s, i, acc) ==
    LET k == RunEnd(s, i, JsonSpace)
    IN  IF ~LitAt(s, k, "\"") THEN JsonFail
        ELSE CHOOSE out \in
                {IF ~key.ok THEN JsonFail
                 ELSE LET c == RunEnd(s, key.next, JsonSpace)
                      IN  IF ~LitAt(s, c, ":") THEN JsonFail
                          ELSE CHOOSE res \in
                                  {IF ~r.ok THEN JsonFail
                                   ELSE LET j == RunEnd(s, r.next, JsonSpace)
                                            set == [n \in DOMAIN acc \cup {key.value.v} |->
                                                       IF n = key.value.v THEN r.value
                                                       ELSE acc[n]]
                                        IN  IF LitAt(s, j, ",") THEN jsonMembers(s, j + 1, set)
                                            ELSE IF LitAt(s, j, "}")
                                            THEN JsonAt(JObj(set), j + 1)
                                            ELSE JsonFail :
                                      r \in {jsonValue(s, c + 1)}} : TRUE :
                    key \in {jsonString(s, k + 1, "")}} : TRUE

NoMembers == [n \in {} |-> JNull]

\* a value from position i on, white space before it skipped
jsonValue(s, i) ==
    LET j == RunEnd(s, i, JsonSpace)
    IN  IF j > Len(s) THEN JsonFail
        ELSE IF LitAt(s, j, "{")
        THEN LET k == RunEnd(s, j + 1, JsonSpace)
             IN  IF LitAt(s, k, "}") THEN JsonAt(JObj(NoMembers), k + 1)
                 ELSE jsonMembers(s, j + 1, NoMembers)
        ELSE IF LitAt(s, j, "[")
        THEN LET k == RunEnd(s, j + 1, JsonSpace)
             IN  IF LitAt(s, k, "]") THEN JsonAt(JArr(<<>>), k + 1)
                 ELSE jsonElements(s, j + 1, <<>>)
        ELSE IF LitAt(s, j, "\"") THEN jsonString(s, j + 1, "")
        ELSE IF LitAt(s, j, "true") THEN JsonAt(JBool(TRUE), j + 4)
        ELSE IF LitAt(s, j, "false") THEN JsonAt(JBool(FALSE), j + 5)
        ELSE IF LitAt(s, j, "null") THEN JsonAt(JNull, j + 4)
        ELSE jsonNumber(s, j)

\* JSON.parse(text): the value, or a SyntaxError thrown
jsonParse(text) ==
    CHOOSE out \in
        {IF r.ok /\ RunEnd(text, r.next, JsonSpace) > Len(text)
         THEN [threw |-> FALSE, value |-> r.value]
         ELSE [threw |-> TRUE, value |-> JNull] :
            r \in {jsonValue(text, 1)}} : TRUE

(***************************************************************************)
(* types/schema.ts: the zod schemas, each as an operator from a value of   *)
(* JSON to what parse returns for it, Absent where parse throws            *)
(***************************************************************************)
FieldTypeEnum ==
    {"string", "number", "boolean", "date", "datetime", "enum", "json", "relation"}
RelationTypeEnum == {"one-to-one", "one-to-many", "many-to-many"}

Has(v, key) == key \in DOMAIN v.v

\* z.string(), z.boolean(), z.enum([...]) and z.array(z.string()) accept v
isString(v) == v.t = "str"
isBoolean(v) == v.t = "bool"
isOneOf(v, values) == v.t = "str" /\ v.v \in values
isStrings(v) == v.t = "arr" /\ \A k \in 1..Len(v.v) : v.v[k].t = "str"

\* .optional(): the key may be missing
optionalOk(v, key, ok(_)) == Has(v, key) => ok(v.v[key])
requiredOk(v, key, ok(_)) == Has(v, key) /\ ok(v.v[key])

\* the member if the key is present
optionalOf(v, key) == IF Has(v, key) THEN Some(v.v[key].v) ELSE Absent

relationOk(v) ==
    /\ v.t = "obj"
    /\ requiredOk(v, "model", isString)
    /\ requiredOk(v, "type", LAMBDA x : isOneOf(x, RelationTypeEnum))
    /\ optionalOk(v, "foreignKey", isString)

relationOf(v) ==
    [model |-> v.v["model"].v, type |-> v.v["type"].v,
     foreignKey |-> optionalOf(v, "foreignKey")]

\* FieldSchema accepts v
fieldOk(v) ==
    /\ v.t = "obj"
    /\ requiredOk(v, "name", isString)
    /\ requiredOk(v, "type", LAMBDA x : isOneOf(x, FieldTypeEnum))
    /\ requiredOk(v, "isRequired", isBoolean)
    /\ requiredOk(v, "isUnique", isBoolean)
    /\ requiredOk(v, "isId", isBoolean)
    /\ optionalOk(v, "isList", isBoolean)
    /\ optionalOk(v, "default", isString)
    /\ optionalOk(v, "enumValues", isStrings)
    /\ optionalOk(v, "relation", relationOk)
    /\ optionalOk(v, "description", isString)

\* what FieldSchema returns: the keys it declares, isList false if missing
fieldOf(v) ==
    [name |-> v.v["name"].v, type |-> v.v["type"].v,
     isRequired |-> v.v["isRequired"].v, isUnique |-> v.v["isUnique"].v,
     isId |-> v.v["isId"].v,
     isList |-> IF Has(v, "isList") THEN v.v["isList"].v ELSE FALSE,
     default |-> optionalOf(v, "default"),
     enumValues |-> IF Has(v, "enumValues")
                    THEN Some([k \in 1..Len(v.v["enumValues"].v) |-> v.v["enumValues"].v[k].v])
                    ELSE Absent,
     relation |-> IF Has(v, "relation") THEN Some(relationOf(v.v["relation"])) ELSE Absent,
     description |-> optionalOf(v, "description")]

\* FieldSchema, were it to accept a relation field only with its relation
fieldOkRefined(v) == fieldOk(v) /\ (v.v["type"].v = "relation" => Has(v, "relation"))

modelOk(v) ==
    /\ v.t = "obj"
    /\ requiredOk(v, "name", isString)
    /\ requiredOk(v, "fields", LAMBDA x : x.t = "arr" /\ \A k \in 1..Len(x.v) : fieldOk(x.v[k]))
    /\ optionalOk(v, "description", isString)

modelOf(v) ==
    [name |-> v.v["name"].v,
     fields |-> [k \in 1..Len(v.v["fields"].v) |-> fieldOf(v.v["fields"].v[k])]]

enumOk(v) ==
    /\ v.t = "obj"
    /\ requiredOk(v, "name", isString)
    /\ requiredOk(v, "values", isStrings)

enumOf(v) ==
    [name |-> v.v["name"].v,
     values |-> [k \in 1..Len(v.v["values"].v) |-> v.v["values"].v[k].v]]

\* DatabaseSchemaSchema accepts v
databaseSchemaOk(v) ==
    /\ v.t = "obj"
    /\ requiredOk(v, "models", LAMBDA x : x.t = "arr" /\ \A k \in 1..Len(x.v) : modelOk(x.v[k]))
    /\ optionalOk(v, "enums", LAMBDA x : x.t = "arr" /\ \A k \in 1..Len(x.v) : enumOk(x.v[k]))

\* DatabaseSchemaSchema.parse(v): enums is [] if missing
databaseSchemaOf(v) ==
    [models |-> [k \in 1..Len(v.v["models"].v) |-> modelOf(v.v["models"].v[k])],
     enums |-> IF Has(v, "enums")
               THEN [k \in 1..Len(v.v["enums"].v) |-> enumOf(v.v["enums"].v[k])]
               ELSE <<>>]

DatabaseSchemaSchema(v) == IF databaseSchemaOk(v) THEN Some(databaseSchemaOf(v)) ELSE Absent

(***************************************************************************)
(* app/api/parse/route.ts and app/api/generate/route.ts: the two POST      *)
(* handlers, one request at a time.  A handler runs from an await to the   *)
(* next; the steps below cut it further, at the calls of rateLimit and of  *)
(* the model, so that their order shows.  epTrace lists those calls.       *)
(***************************************************************************)
DEFAULT_CONFIG == Config(TRUE, TRUE)

NoResponse == [status |-> 0, kind |-> "", schema |-> Absent, text |-> ""]

\* NextResponse.json(schema)
SchemaResponse(schema) == [status |-> 200, kind |-> "schema", schema |-> Some(schema), text |-> ""]
\* new Response(code), and result.toTextStreamResponse()
CodeResponse(code) == [status |-> 200, kind |-> "code", schema |-> Absent, text |-> code]
StreamResponse == [status |-> 200, kind |-> "stream", schema |-> Absent, text |-> ""]
\* the responses of the catch blocks, and the 429 of rateLimit
ErrorResponse(status) == [status |-> status, kind |-> "error", schema |-> Absent, text |-> ""]

\* the status the catch block of the parse handler answers with, were it
\* not to tell a SyntaxError apart
parseErrorStatusPlain(error) == 400

\* the catch block of the parse handler: 422 for a SyntaxError, else 400
parseErrorStatus(error) == IF error = "SyntaxError" THEN 422 ELSE 400

\* where the parse handler goes once parseSchema has returned, were the
\* natural-language path not rate limited
afterParseSchemaUnlimited(parsed) == IF parsed # Absent THEN "respond" ELSE "model"

\* if (parsed) return ...; else the rate limit comes next
afterParseSchema(parsed) == IF parsed # Absent THEN "respond" ELSE "limit"

(***************************************************************************)
(* What the model may answer on the natural-language path: texts, each     *)
(* with what it was written as: JSON or not, of the IR shape or not, and   *)
(* with every relation field described or not.                             *)
(***************************************************************************)
Quoted(s) == "\"" \o s \o "\""

FieldJson(name, type, more) ==
    "{\"name\": " \o Quoted(name) \o ", \"type\": " \o Quoted(type)
        \o ", \"isRequired\": true, \"isUnique\": false, \"isId\": false" \o more \o "}"

ModelJson(name, fields) ==
    "{\"name\": " \o Quoted(name) \o ", \"fields\": [" \o Join(fields, ", ") \o "]}"

SchemaJson(models) == "{\"models\": [" \o Join(models, ", ") \o "], \"enums\": []}"

RelationJson(model, type) ==
    ", \"relation\": {\"model\": " \o Quoted(model) \o ", \"type\": " \o Quoted(type) \o "}"

Reply(text, json, shape, described) ==
    [failed |-> FALSE, text |-> text, json |-> json, shape |-> shape, described |-> described]

\* the call of the model fails: generateText throws
ReplyFailed == [failed |-> TRUE, text |-> "", json |-> FALSE, shape |-> FALSE,
                described |-> FALSE]

BlogJson ==
    SchemaJson(<<ModelJson("User", <<FieldJson("name", "string", ""),
                                     FieldJson("posts", "relation",
                                               ", \"isList\": true"
                                                   \o RelationJson("Post", "one-to-many"))>>),
                 ModelJson("Post", <<FieldJson("title", "string", ", \"default\": \"Untitled\"")>>)>>)

\* the schema BlogJson is written to stand for
BlogSchema ==
    [models |->
        <<[name |-> "User",
           fields |-> <<Field("name", "string", TRUE, FALSE, FALSE, FALSE),
                        [Field("posts", "relation", TRUE, FALSE, FALSE, TRUE)
                            EXCEPT !.relation = Some([model |-> "Post", type |-> "one-to-many",
                                                      foreignKey |-> Absent])]>>],
          [name |-> "Post",
           fields |-> <<[Field("title", "string", TRUE, FALSE, FALSE, FALSE)
                            EXCEPT !.default = Some("Untitled")]>>]>>,
     enums |-> <<>>]

ValidReply == Reply(BlogJson, TRUE, TRUE, TRUE)

\* a relation field with no relation member
UndescribedReply ==
    Reply(SchemaJson(<<ModelJson("Post", <<FieldJson("author", "relation", "")>>)>>),
          TRUE, TRUE, FALSE)

Replies ==
    {ValidReply, UndescribedReply, ReplyFailed,
     \* white space around the text, a key the IR does not declare, no enums
     Reply("\n  {\"confidence\": 0.9, \"models\": ["
               \o ModelJson("Tag", <<FieldJson("label", "enum", ", \"enumValues\": [\"a\", \"b\"]")>>)
               \o "]}\n", TRUE, TRUE, TRUE),
     Reply("{\"models\": []}", TRUE, TRUE, TRUE),
     \* not JSON: prose before the text, the text cut short, a comma too many,
     \* nothing
     Reply("Here is the schema:\n" \o BlogJson, FALSE, FALSE, FALSE),
     Reply(SubSeq(BlogJson, 1, Len(BlogJson) - 9), FALSE, FALSE, FALSE),
     Reply(SchemaJson(<<ModelJson("User", <<FieldJson("name", "string", "") \o ",">>)>>),
           FALSE, FALSE, FALSE),
     Reply("", FALSE, FALSE, FALSE),
     \* JSON outside the IR shape: a type and a relation tag outside the closed
     \* sets, a field attribute missing, a relation that is null, no models
     Reply(SchemaJson(<<ModelJson("User", <<FieldJson("name", "text", "")>>)>>),
           TRUE, FALSE, FALSE),
     Reply(SchemaJson(<<ModelJson("Post", <<FieldJson("author", "relation",
                                                      RelationJson("User", "many-to-one"))>>)>>),
           TRUE, FALSE, FALSE),
     Reply(SchemaJson(<<ModelJson("User",
               <<"{\"name\": \"name\", \"type\": \"string\", \"isRequired\": true, \"isUnique\": false}">>)>>),
           TRUE, FALSE, FALSE),
     Reply(SchemaJson(<<ModelJson("Post", <<FieldJson("author", "relation",
                                                      ", \"relation\": null")>>)>>),
           TRUE, FALSE, FALSE),
     Reply("{}", TRUE, FALSE, FALSE),
     Reply("[" \o BlogJson \o "]", TRUE, FALSE, FALSE)}

(***************************************************************************)
(* The requests: the headers rateLimit reads and the body.  A body is what *)
(* req.json() yields, or is malformed, and req.json() throws a SyntaxError *)
(***************************************************************************)
ParseBody(input, format) ==
    [malformed |-> FALSE, input |-> input, format |-> format,
     schema |-> EmptySchema, target |-> "", config |-> Absent]

GenerateBody(schema, target, config) ==
    [malformed |-> FALSE, input |-> "", format |-> "",
     schema |-> schema, target |-> target, config |-> config]

MalformedBody == [ParseBody("", "") EXCEPT !.malformed = TRUE]

RouteTexts ==
    {Doc(<<RoleEnum(TRUE), ModelBlock("User", <<IdLine, RoleLine, PostsLine>>, TRUE)>>).text,
     RenderScript(<<OrderStatus(";\n"),
                    TableStmt(TableName("orders", "Orders"), FALSE,
                              <<Column(ColName("status", "status", FALSE),
                                       ColType("order_status", "order_status", "string"),
                                       NoRest)>>, ", ", ";\n"),
                    TableStmt(TableName("order_items", "OrderItems"), FALSE,
                              <<IdUuidPk, OrderRef>>, ", ", ";")>>),
     "a blog with users who write posts", ""}

ParseBodies ==
    {ParseBody(input, format) : input \in RouteTexts, format \in InputFormats \cup {"graphql"}}
        \cup {MalformedBody}

GenerateBodies ==
    {GenerateBody(in.schema, target, config) :
        in \in {i \in OneFieldInputs : i.schema.models[1].fields[2] \in {GenTags, GenEditor}
                                       /\ i.target = "zod" /\ i.config = Config(TRUE, TRUE)},
        target \in GenerationTargets \cup {"graphql"},
        config \in {Absent, Some(Config(FALSE, FALSE))}}
        \cup {MalformedBody}

RouteIdle ==
    /\ epRoute = ""
    /\ epHeaders = Request(Absent, Absent)
    /\ epBody = MalformedBody
    /\ epPc = "idle"
    /\ epTrace = <<>>
    /\ epResponse = NoResponse
    /\ epReply = ReplyFailed
    /\ epRaised = FALSE

Respond(response) == epResponse' = response /\ epPc' = "responded"

\* Date.now() at the call of rateLimit: the limiter's clock, or a time past
\* the window that was open then
RouteTimes == {rlNow, rlNow + WINDOW_MS + 1}

\* parse, lines 13-21: the body read and validated, parseSchema called, and
\* its schema, if any, returned
ParseReceive ==
    /\ epRoute = "parse" /\ epPc = "received"
    /\ IF epBody.malformed THEN Respond(ErrorResponse(parseErrorStatus("SyntaxError")))
       ELSE IF epBody.format \notin InputFormats
       THEN Respond(ErrorResponse(parseErrorStatus("ZodError")))
       ELSE \E r \in {parseSchema(epBody.input, epBody.format)} :
                IF r.threw THEN Respond(ErrorResponse(parseErrorStatus("Error")))
                ELSE IF afterParseSchema(r.value) = "respond"
                THEN Respond(SchemaResponse(r.value[1]))
                ELSE epPc' = afterParseSchema(r.value) /\ epResponse' = epResponse
    /\ UNCHANGED <<epRoute, epHeaders, epBody, epTrace, epReply, epRaised>>
    /\ UNCHANGED <<coreVars, rlVars, pgVars>>

\* parse, lines 24-25
ParseRateLimit ==
    /\ epRoute = "parse" /\ epPc = "limit"
    /\ \E now \in RouteTimes :
          /\ RateLimit(epHeaders, now)
          /\ IF rateLimit(rlStore, rlOthers, epHeaders, now).response # Absent
             THEN Respond(ErrorResponse(429))
             ELSE epPc' = "model" /\ epResponse' = epResponse
    /\ epTrace' = Append(epTrace, "rateLimit")
    /\ UNCHANGED <<epRoute, epHeaders, epBody, epReply, epRaised>>
    /\ UNCHANGED <<coreVars, pgVars>>

\* parse, lines 27-32: generateText called
ParseCallModel ==
    /\ epRoute = "parse" /\ epPc = "model"
    /\ epTrace' = Append(epTrace, "model")
    /\ epPc' = "await"
    /\ UNCHANGED <<epRoute, epHeaders, epBody, epResponse, epReply, epRaised>>
    /\ UNCHANGED <<coreVars, rlVars, pgVars>>

\* parse, lines 35-38 and the catch block: the model has answered, or failed
ParseModelReturns ==
    /\ epRoute = "parse" /\ epPc = "await"
    /\ \E reply \in Replies :
          /\ epReply' = reply
          /\ IF reply.failed THEN Respond(ErrorResponse(parseErrorStatus("Error")))
             ELSE \E json \in {jsonParse(trim(reply.text))} :
                      IF json.threw THEN Respond(ErrorResponse(parseErrorStatus("SyntaxError")))
                      ELSE \E parsedSchema \in {DatabaseSchemaSchema(json.value)} :
                               IF parsedSchema = Absent
                               THEN Respond(ErrorResponse(parseErrorStatus("ZodError")))
                               ELSE Respond(SchemaResponse(parsedSchema[1]))
    /\ UNCHANGED <<epRoute, epHeaders, epBody, epTrace, epRaised>>
    /\ UNCHANGED <<coreVars, rlVars, pgVars>>

\* generate, lines 21-32: the body read and validated, and a template target
\* generated
GenerateReceive ==
    /\ epRoute = "generate" /\ epPc = "received"
    /\ IF epBody.malformed \/ epBody.target \notin GenerationTargets
       THEN Respond(ErrorResponse(400)) /\ epRaised' = epRaised
       ELSE IF isTemplateTarget(epBody.target)
       THEN \E code \in {generateFromTemplate(
                             epBody.schema, epBody.target,
                             IF epBody.config # Absent THEN epBody.config[1]
                             ELSE DEFAULT_CONFIG)} :
                /\ epRaised' = code.threw
                /\ IF code.threw THEN Respond(ErrorResponse(400))
                   ELSE Respond(CodeResponse(code.value))
       ELSE epPc' = "limit" /\ epResponse' = epResponse /\ epRaised' = epRaised
    /\ UNCHANGED <<epRoute, epHeaders, epBody, epTrace, epReply>>
    /\ UNCHANGED <<coreVars, rlVars, pgVars>>

\* generate, lines 35-36
GenerateRateLimit ==
    /\ epRoute = "generate" /\ epPc = "limit"
    /\ \E now \in RouteTimes :
          /\ RateLimit(epHeaders, now)
          /\ IF rateLimit(rlStore, rlOthers, epHeaders, now).response # Absent
             THEN Respond(ErrorResponse(429))
             ELSE epPc' = "model" /\ epResponse' = epResponse
    /\ epTrace' = Append(epTrace, "rateLimit")
    /\ UNCHANGED <<epRoute, epHeaders, epBody, epReply, epRaised>>
    /\ UNCHANGED <<coreVars, pgVars>>

\* generate, lines 38-47: streamText called and its stream returned
GenerateCallModel ==
    /\ epRoute = "generate" /\ epPc = "model"
    /\ epTrace' = Append(epTrace, "model")
    /\ Respond(StreamResponse)
    /\ UNCHANGED <<epRoute, epHeaders, epBody, epReply, epRaised>>
    /\ UNCHANGED <<coreVars, rlVars, pgVars>>

(***************************************************************************)
(* The page (Home): its state, the two buttons, and the steps of the runs  *)
(* handleGenerate starts.  A run is the async call of handleGenerate; each *)
(* await is a place where the run waits, and what the server answers is    *)
(* the environment's choice.  Aborting a controller rejects what its run   *)
(* awaits; the run's catch and finally run when that rejection is taken    *)
(* up, which is a step of its own.                                         *)
(***************************************************************************)

GENERATION_ORDER == <<"zod", "types", "trpc", "react-form">>

\* the number of runs looked at, and of chunks a stream delivers at most
MaxRuns == 2
MaxChunks == 1

Runs == 1..MaxRuns

NoOutputs == [t \in GenerationTargets |-> ""]

\* a run: where it waits ("idle" before it starts, "parse" in parseSchema,
\* "fetch" and "read" in generateTarget, "ended" after finally), the index of
\* its target in GENERATION_ORDER, accumulated, and how it ended
NoRun == [pc |-> "idle", target |-> 0, accumulated |-> "", ended |-> ""]

\* what the editor can hold
PageTexts == {"", " \n", "model User {\n  id Int @id\n}"}

\* what /api/parse answers: res.ok, the number of models of the schema, and
\* data.error
ParseAnswers ==
    { [ok |-> TRUE, models |-> 1, error |-> ""],
      [ok |-> TRUE, models |-> 0, error |-> ""],
      [ok |-> FALSE, models |-> 0, error |-> "Too many requests. Please try again shortly."] }

NoModelsFound == "No models found in schema. Check your input format."

\* what /api/generate answers: res.ok and data.error
GenerateAnswers ==
    { [ok |-> TRUE, error |-> ""],
      [ok |-> FALSE, error |-> "Too many requests. Please try again shortly."] }

\* what one reader.read() decodes to
Chunk == "export const "

\* controller.signal.aborted, for the controller of run r
signalAborted(r) == r \in aborted

\* abortRef.current?.abort()
abortCurrent == IF abortRef = Absent THEN aborted ELSE aborted \cup {abortRef[1]}

\* the finally block of handleGenerate
finallyBlock ==
    /\ isGenerating' = FALSE
    /\ streamingTarget' = Absent

\* the run r is over
runEnds(r, how) == runs' = [runs EXCEPT ![r].pc = "ended", ![r].ended = how]

\* catch (err) with an Error that is no AbortError, then finally
runFails(r, message) ==
    /\ pageError' = Some(message)
    /\ finallyBlock
    /\ runEnds(r, "failed")

\* generateTarget up to its first await
generateTarget(r, i) ==
    /\ streamingTarget' = Some(GENERATION_ORDER[i])
    /\ activeTab' = GENERATION_ORDER[i]
    /\ runs' = [runs EXCEPT ![r].pc = "fetch", ![r].target = i, ![r].accumulated = ""]

\* the state after useState and useRef
PageIdle ==
    /\ schemaInput = ""
    /\ activeTab = "zod"
    /\ outputs = NoOutputs
    /\ isGenerating = FALSE
    /\ streamingTarget = Absent
    /\ pageError = Absent
    /\ abortRef = Absent
    /\ aborted = {}
    /\ runs = [r \in Runs |-> NoRun]
    /\ started = 0

\* onChange of the editor
SetSchemaInput ==
    /\ \E text \in PageTexts :
          /\ text # schemaInput
          /\ schemaInput' = text
    /\ UNCHANGED <<activeTab, outputs, isGenerating, streamingTarget, pageError, abortRef,
                   aborted, runs, started>>
    /\ UNCHANGED <<coreVars, rlVars, epVars>>

\* onTabChange of the output panel
TabChange ==
    /\ \E tab \in GenerationTargets :
          /\ tab # activeTab
          /\ activeTab' = tab
    /\ UNCHANGED <<schemaInput, outputs, isGenerating, streamingTarget, pageError, abortRef,
                   aborted, runs, started>>
    /\ UNCHANGED <<coreVars, rlVars, epVars>>

\* the dismiss button of the error bar, there while error is set
DismissError ==
    /\ pageError # Absent
    /\ pageError' = Absent
    /\ UNCHANGED <<schemaInput, activeTab, outputs, isGenerating, streamingTarget, abortRef,
                   aborted, runs, started>>
    /\ UNCHANGED <<coreVars, rlVars, epVars>>

\* the Generate button (disabled while isGenerating or the input is blank):
\* handleGenerate up to its first await
HandleGenerate ==
    /\ ~isGenerating
    /\ trim(schemaInput) # ""
    /\ started < MaxRuns
    /\ aborted' = abortCurrent
    /\ abortRef' = Some(started + 1)
    /\ started' = started + 1
    /\ isGenerating' = TRUE
    /\ pageError' = Absent
    /\ outputs' = NoOutputs
    /\ runs' = [runs EXCEPT ![started + 1].pc = "parse"]
    /\ UNCHANGED <<schemaInput, activeTab, streamingTarget>>
    /\ UNCHANGED <<coreVars, rlVars, epVars>>

\* the Cancel button (there while isGenerating): handleCancel
HandleCancel ==
    /\ isGenerating
    /\ aborted' = abortCurrent
    /\ isGenerating' = FALSE
    /\ streamingTarget' = Absent
    /\ UNCHANGED <<schemaInput, activeTab, outputs, pageError, abortRef, runs, started>>
    /\ UNCHANGED <<coreVars, rlVars, epVars>>

\* await parseSchema(controller.signal) settles for a run that was not
\* aborted: the checks on the schema, then the first turn of the loop
ParseSettles ==
    /\ \E r \in Runs, answer \in ParseAnswers :
          /\ runs[r].pc = "parse"
          /\ ~signalAborted(r)
          /\ IF ~answer.ok
             THEN runFails(r, answer.error) /\ UNCHANGED activeTab
             ELSE IF answer.models = 0
             THEN runFails(r, NoModelsFound) /\ UNCHANGED activeTab
             ELSE generateTarget(r, 1) /\ UNCHANGED <<isGenerating, pageError>>
    /\ UNCHANGED <<schemaInput, outputs, abortRef, aborted, started>>
    /\ UNCHANGED <<coreVars, rlVars, epVars>>

\* await fetch("/api/generate") settles for a run that was not aborted
FetchSettles ==
    /\ \E r \in Runs, answer \in GenerateAnswers :
          /\ runs[r].pc = "fetch"
          /\ ~signalAborted(r)
          /\ IF answer.ok
             THEN /\ runs' = [runs EXCEPT ![r].pc = "read"]
                  /\ UNCHANGED <<isGenerating, streamingTarget, pageError>>
             ELSE runFails(r, answer.error)
    /\ UNCHANGED <<schemaInput, activeTab, outputs, abortRef, aborted, started>>
    /\ UNCHANGED <<coreVars, rlVars, epVars>>

\* await reader.read() gives a chunk
ReadChunk ==
    /\ \E r \in Runs :
          /\ runs[r].pc = "read"
          /\ ~signalAborted(r)
          /\ Len(runs[r].accumulated) < MaxChunks * Len(Chunk)
          /\ \E accumulated \in {runs[r].accumulated \o Chunk} :
                /\ runs' = [runs EXCEPT ![r].accumulated = accumulated]
                /\ outputs' = [outputs EXCEPT ![GENERATION_ORDER[runs[r].target]] = accumulated]
    /\ UNCHANGED <<schemaInput, activeTab, isGenerating, streamingTarget, pageError, abortRef,
                   aborted, started>>
    /\ UNCHANGED <<coreVars, rlVars, epVars>>

\* await reader.read() gives done: generateTarget returns, and the loop goes
\* to the next target, breaks on an aborted signal, or is over
ReadDone ==
    /\ \E r \in Runs :
          /\ runs[r].pc = "read"
          /\ IF runs[r].target = Len(GENERATION_ORDER)
             THEN finallyBlock /\ runEnds(r, "completed") /\ UNCHANGED activeTab
             ELSE IF signalAborted(r)
             THEN finallyBlock /\ runEnds(r, "aborted") /\ UNCHANGED activeTab
             ELSE generateTarget(r, runs[r].target + 1) /\ UNCHANGED isGenerating
    /\ UNCHANGED <<schemaInput, outputs, pageError, abortRef, aborted, started>>
    /\ UNCHANGED <<coreVars, rlVars, epVars>>

\* what an aborted run awaits is rejected with an AbortError: catch returns,
\* then finally
AbortDelivered ==
    /\ \E r \in Runs :
          /\ runs[r].pc \in {"parse", "fetch", "read"}
          /\ signalAborted(r)
          /\ finallyBlock
          /\ runEnds(r, "aborted")
    /\ UNCHANGED <<schemaInput, activeTab, outputs, pageError, abortRef, aborted, started>>
    /\ UNCHANGED <<coreVars, rlVars, epVars>>

(***************************************************************************)
(* The specifications: one per component, each with the other components   *)
(* idle.                                                                   *)
(***************************************************************************)

SplitInit ==
    /\ splitBody \in SplitBodies
    /\ splitOut = <<>>
    /\ splitPc = "call"
    /\ SqlIdle /\ PrismaIdle /\ GenIdle /\ DetectIdle /\ ParseIdle /\ RateIdle /\ RouteIdle /\ PageIdle

SplitNext == SplitCall /\ UNCHANGED <<sqlVars, prVars, genVars, dfVars, psVars, rlVars, epVars, pgVars>>

SpecSplit == SplitInit /\ [][SplitNext]_vars

SqlInit ==
    /\ sqlStmts \in SqlScripts
    /\ sqlInput = RenderScript(sqlStmts)
    /\ sqlOut = EmptySchema
    /\ sqlPc = "call"
    /\ SplitIdle /\ PrismaIdle /\ GenIdle /\ DetectIdle /\ ParseIdle /\ RateIdle /\ RouteIdle /\ PageIdle

SqlNext == SqlCall /\ UNCHANGED <<splitVars, prVars, genVars, dfVars, psVars, rlVars, epVars, pgVars>>

SpecSql == SqlInit /\ [][SqlNext]_vars

PrismaInit ==
    /\ prDoc \in PrismaDocs
    /\ prInput = prDoc.text
    /\ prLines = <<>>
    /\ prLine = 0
    /\ currentBlock = Absent
    /\ prModels = <<>>
    /\ prEnums = <<>>
    /\ prPc = "call"
    /\ SplitIdle /\ SqlIdle /\ GenIdle /\ DetectIdle /\ ParseIdle /\ RateIdle /\ RouteIdle /\ PageIdle

PrismaNext == PrismaSplit \/ PrismaLine \/ PrismaReturn

SpecPrisma == PrismaInit /\ [][PrismaNext]_vars

GenInit ==
    /\ \E in \in GenInputs :
          /\ genSchema = in.schema
          /\ genConfig = in.config
          /\ genTarget = in.target
    /\ genOut = ""
    /\ genPc = "call"
    /\ genPrev = Absent
    /\ genCalls = 0
    /\ SplitIdle /\ SqlIdle /\ PrismaIdle /\ DetectIdle /\ ParseIdle /\ RateIdle /\ RouteIdle /\ PageIdle

GenNext == GenerateFromTemplate /\ UNCHANGED <<splitVars, sqlVars, prVars, dfVars, psVars, rlVars, epVars, pgVars>>

SpecGen == GenInit /\ [][GenNext]_vars

DetectInit ==
    /\ dfText \in DetectTexts
    /\ dfOut = ""
    /\ dfPc = "call"
    /\ SplitIdle /\ SqlIdle /\ PrismaIdle /\ GenIdle /\ ParseIdle /\ RateIdle /\ RouteIdle /\ PageIdle

DetectNext == DetectFormat /\ UNCHANGED <<splitVars, sqlVars, prVars, genVars, psVars, rlVars, epVars, pgVars>>

SpecDetect == DetectInit /\ [][DetectNext]_vars

ParseInit ==
    /\ psInput \in ParseTexts
    /\ psFormat \in ParseFormats
    /\ psOut = Absent
    /\ psPc = "call"
    /\ SplitIdle /\ SqlIdle /\ PrismaIdle /\ GenIdle /\ DetectIdle /\ RateIdle /\ RouteIdle /\ PageIdle

ParseNext == ParseSchema /\ UNCHANGED <<splitVars, sqlVars, prVars, genVars, dfVars, rlVars, epVars, pgVars>>

SpecParse == ParseInit /\ [][ParseNext]_vars

CoreIdle == SplitIdle /\ SqlIdle /\ PrismaIdle /\ GenIdle /\ DetectIdle /\ ParseIdle

\* the limiter before the calls looked at
LimiterStart ==
    /\ rlNow = OthersStamp
    /\ \E list \in StartLists :
          /\ rlStore = (IF list = <<>> THEN EmptyStore
                        ELSE storeSet(EmptyStore, "10.0.0.1", list))
          /\ rlPlain = rlStore
          /\ rlAdmitted = [ip \in ClientIps |-> IF ip = "10.0.0.1" THEN list ELSE <<>>]
    /\ rlLast = NoCall
    /\ rlDeadline = NoDeadlines
    /\ rlCalls = 0

RateInit ==
    /\ LimiterStart
    /\ rlOthers \in StartOthers
    /\ CoreIdle /\ RouteIdle /\ PageIdle

RateNext == RateLimitCall /\ UNCHANGED <<coreVars, epVars, pgVars>>

SpecRate == RateInit /\ [][RateNext]_vars

RouteInit ==
    /\ epRoute \in {"parse", "generate"}
    /\ epHeaders \in {Request(Some("10.0.0.1, 172.16.0.9"), Absent), Request(Absent, Absent)}
    /\ epBody \in (IF epRoute = "parse" THEN ParseBodies ELSE GenerateBodies)
    /\ epPc = "received"
    /\ epTrace = <<>>
    /\ epResponse = NoResponse
    /\ epReply = ReplyFailed
    /\ epRaised = FALSE
    /\ LimiterStart
    /\ rlOthers = 0
    /\ CoreIdle /\ PageIdle

RouteNext ==
    \/ ParseReceive \/ ParseRateLimit \/ ParseCallModel \/ ParseModelReturns
    \/ GenerateReceive \/ GenerateRateLimit \/ GenerateCallModel

SpecRoutes == RouteInit /\ [][RouteNext]_vars

\* generateFromTemplate called by itself, and by the generate handler
SpecDispatch == (GenInit \/ RouteInit) /\ [][GenNext \/ RouteNext]_vars

PageInit == PageIdle /\ CoreIdle /\ RateIdle /\ RouteIdle

PageNext ==
    \/ SetSchemaInput \/ TabChange \/ DismissError \/ HandleGenerate \/ HandleCancel
    \/ ParseSettles \/ FetchSettles \/ ReadChunk \/ ReadDone \/ AbortDelivered

SpecPage == PageInit /\ [][PageNext]_vars

Init ==
    SplitInit \/ SqlInit \/ PrismaInit \/ GenInit \/ DetectInit \/ ParseInit \/ RateInit
        \/ RouteInit \/ PageInit

Next ==
    SplitNext \/ SqlNext \/ PrismaNext \/ GenNext \/ DetectNext \/ ParseNext \/ RateNext
        \/ RouteNext \/ PageNext

Spec == Init /\ [][Next]_vars

(***************************************************************************)
(* C4: splitColumns cuts exactly at the commas outside all parentheses.    *)
(* A comma is a cut iff as many "(" as ")" precede it; the k-th definition *)
(* is the text between the (k-1)-th and the k-th cut, so nothing but the   *)
(* cutting commas is lost; the text after the last cut is one more         *)
(* definition unless it is blank, in which case it is dropped.             *)
(***************************************************************************)
CountBefore(s, i, c) == Cardinality({j \in 1..(i - 1) : At(s, j) = c})

TopCommas(s) ==
    {i \in 1..Len(s) : At(s, i) = "," /\ CountBefore(s, i, "(") = CountBefore(s, i, ")")}


C4_SplitAtTopLevelCommas ==
    splitPc = "done" =>
        LET cuts == TopCommas(splitBody)
            n == Cardinality(cuts)
            cut(k) == IF k = 0 THEN 0 ELSE KthOf(cuts, k)
            tail == SubSeq(splitBody, cut(n) + 1, Len(splitBody))
        IN  /\ Len(splitOut) = IF trim(tail) = "" THEN n ELSE n + 1
            /\ \A k \in 1..n :
                  splitOut[k] = SubSeq(splitBody, cut(k - 1) + 1, cut(k) - 1)
            /\ trim(tail) # "" => splitOut[n + 1] = tail

C4_Witness ==
    /\ splitPc = "done"
    /\ splitBody = "price DECIMAL(10,2) NOT NULL, sku VARCHAR(100)"
    /\ splitOut = <<"price DECIMAL(10,2) NOT NULL", " sku VARCHAR(100)">>


(***************************************************************************)
(* What was written, for comparison with what parseSqlSchema returned      *)
(***************************************************************************)

\* every statement but the last is followed by a semicolon
Separated(stmts) == \A k \in 1..(Len(stmts) - 1) : includes(stmts[k].term, ";")

TablesOf(stmts) == SeqFilter(stmts, LAMBDA st : st.kind = "table")
ColumnsOf(table) == SeqFilter(table.defs, LAMBDA d : d.kind = "column")

\* the columns that reach parseSqlColumn: those the constraint filter of
\* parseSqlColumns lets through
ParsedColumnsOf(table) ==
    SeqFilter(table.defs, LAMBDA d : d.kind = "column" /\ ~d.name.keywordLike)

FieldsNamed(model, name) == {j \in 1..Len(model.fields) : model.fields[j].name = name}

NamesOf(fields) == [j \in 1..Len(fields) |-> fields[j].name]

\* the models and the tables written correspond one to one
Aligned == sqlPc = "done" /\ Separated(sqlStmts)
           /\ Len(sqlOut.models) = Len(TablesOf(sqlStmts))

(***************************************************************************)
(* C5: for every column definition that yields a field, isId is true iff   *)
(* what follows the type holds PRIMARY KEY or SERIAL, isUnique iff it      *)
(* holds UNIQUE, isRequired iff it holds NOT NULL or isId is true; so      *)
(* every isId field is required; and the customers table of the            *)
(* specification yields Customers with id (isId) and email (required,      *)
(* unique, string), in that order.                                         *)
(***************************************************************************)
C5_SqlColumnFlags ==
    /\ sqlPc = "done" =>
          \A k \in 1..Len(sqlOut.models) : \A j \in 1..Len(sqlOut.models[k].fields) :
              sqlOut.models[k].fields[j].isId => sqlOut.models[k].fields[j].isRequired
    /\ Aligned =>
          \A k \in 1..Len(sqlOut.models) : \A j \in 1..Len(sqlOut.models[k].fields) :
              LET f == sqlOut.models[k].fields[j]
              IN  \E d \in Range(ColumnsOf(TablesOf(sqlStmts)[k])) :
                      /\ d.name.camel = f.name
                      /\ f.isId = (d.rest.pk \/ d.rest.serial)
                      /\ f.isUnique = d.rest.unique
                      /\ f.isRequired = (d.rest.notNull \/ f.isId)
    /\ sqlPc = "done" /\ sqlStmts = CustomersScript =>
          /\ Len(sqlOut.models) = 1
          /\ sqlOut.models[1].name = "Customers"
          /\ NamesOf(sqlOut.models[1].fields) = <<"id", "email">>
          /\ sqlOut.models[1].fields[1].isId
          /\ LET email == sqlOut.models[1].fields[2]
             IN  email.isRequired /\ email.isUnique /\ email.type = "string" /\ ~email.isId

C5_Witness ==
    /\ sqlPc = "done"
    /\ sqlStmts = CustomersScript
    /\ sqlInput = "CREATE TABLE customers (id UUID PRIMARY KEY, email VARCHAR(255) NOT NULL UNIQUE)"
    /\ Len(sqlOut.models) = 1
    /\ sqlOut.models[1].fields[1].isId /\ sqlOut.models[1].fields[1].isRequired

ModelsMatchTables ==
    LET tables == TablesOf(sqlStmts)
    IN  /\ Len(sqlOut.models) = Len(tables)
        /\ \A k \in 1..Len(tables) :
              /\ sqlOut.models[k].name = tables[k].name.pascal
              /\ \A j \in 1..Len(sqlOut.models[k].fields) :
                    \E d \in Range(ColumnsOf(tables[k])) :
                        d.name.camel = sqlOut.models[k].fields[j].name

(***************************************************************************)
(* C6: n CREATE TABLE statements, each with or without a semicolon after   *)
(* it, yield exactly n models, in source order, each named                 *)
(* PascalCase(name) and each holding only columns of its own body.         *)
(***************************************************************************)
C6_TablesWithOrWithoutSemicolon == sqlPc = "done" => ModelsMatchTables

\* two tables with no semicolon between them come back as one model
C6_Witness ==
    /\ sqlPc = "done"
    /\ sqlInput = "CREATE TABLE Tags (id UUID PRIMARY KEY)\nCREATE TABLE customers (id UUID PRIMARY KEY, email VARCHAR(255) NOT NULL UNIQUE)\n"
    /\ Len(sqlOut.models) = 1
    /\ sqlOut.models[1].name = "Tags"
    /\ NamesOf(sqlOut.models[1].fields) = <<"email">>

\* what does hold: when every statement but the last is followed by a
\* semicolon, the models are the tables
TablesSeparatedBySemicolons ==
    sqlPc = "done" /\ Separated(sqlStmts) => ModelsMatchTables

(***************************************************************************)
(* C7: a definition is skipped iff it is a table-level constraint; every   *)
(* column definition, also one whose name begins with the letters of a     *)
(* constraint keyword (index_no, checked_at, unique_code), yields a field. *)
(***************************************************************************)
C7_OnlyConstraintsSkipped ==
    Aligned =>
        \A k \in 1..Len(sqlOut.models) :
            NamesOf(sqlOut.models[k].fields)
                = [j \in 1..Len(ColumnsOf(TablesOf(sqlStmts)[k])) |->
                      ColumnsOf(TablesOf(sqlStmts)[k])[j].name.camel]

\* the column index_no is taken for an INDEX constraint
C7_Witness ==
    /\ sqlPc = "done"
    /\ sqlInput = "CREATE TABLE orders (index_no UUID NOT NULL);"
    /\ sqlOut.models = <<[name |-> "Orders", fields |-> <<>>]>>

\* what does hold: the fields are the columns whose text does not begin
\* with the letters of a constraint keyword
ColumnsPastTheFilter ==
    Aligned =>
        \A k \in 1..Len(sqlOut.models) :
            NamesOf(sqlOut.models[k].fields)
                = [j \in 1..Len(ParsedColumnsOf(TablesOf(sqlStmts)[k])) |->
                      ParsedColumnsOf(TablesOf(sqlStmts)[k])[j].name.camel]

DeclaredEnum(type) ==
    SeqFilter(sqlStmts,
              LAMBDA st : st.kind = "enum"
                          /\ toLowerCase(st.name.text) = toLowerCase(type.raw))

EnumResolved(model, d) ==
    \E j \in FieldsNamed(model, d.name.camel) :
        LET f == model.fields[j]
            e == DeclaredEnum(d.type)
        IN  IF e # <<>>
            THEN f.type = "enum" /\ f.enumValues = Some(e[1].values)
            ELSE f.type = d.type.scalar /\ f.enumValues = Absent

(***************************************************************************)
(* C8: a column without REFERENCES whose type name equals,                 *)
(* case-insensitively, the name of an enum declared anywhere in the input, *)
(* before or after its table, yields a field of type enum whose enumValues *)
(* are that enum's values, in declared order, quotes stripped.             *)
(***************************************************************************)
C8_SqlEnumAnywhere ==
    Aligned =>
        \A k \in 1..Len(sqlOut.models) :
            \A d \in Range(ColumnsOf(TablesOf(sqlStmts)[k])) :
                d.rest.ref = "" /\ DeclaredEnum(d.type) # <<>>
                    => EnumResolved(sqlOut.models[k], d)

\* a column of an enum declared before its table, dropped by the filter
C8_Witness ==
    /\ sqlPc = "done"
    /\ sqlInput = "CREATE TYPE order_status AS ENUM ('pending', 'shipped');\nCREATE TABLE orders (checked_at Order_Status NOT NULL);"
    /\ sqlOut.models = <<[name |-> "Orders", fields |-> <<>>]>>

\* what does hold: the columns that reach parseSqlColumn resolve against
\* the enums of the whole input, or else against the table of SQL types
EnumAnywherePastTheFilter ==
    Aligned =>
        \A k \in 1..Len(sqlOut.models) :
            \A d \in Range(ParsedColumnsOf(TablesOf(sqlStmts)[k])) :
                d.rest.ref = "" => EnumResolved(sqlOut.models[k], d)

EnumAfterTableResolved ==
    /\ Aligned
    /\ Len(sqlStmts) = 2 /\ sqlStmts[1].kind = "table" /\ sqlStmts[2].kind = "enum"
    /\ sqlStmts[1].defs[1].type.raw = "Order_Status"
    /\ Len(sqlOut.models[1].fields) = 1
    /\ sqlOut.models[1].fields[1].type = "enum"
    /\ sqlOut.models[1].fields[1].enumValues = Some(<<"pending", "shipped">>)

RelationResolved(model, d) ==
    \E j \in FieldsNamed(model, d.name.camel) :
        LET f == model.fields[j]
        IN  /\ f.type = "relation"
            /\ f.relation = Some([model |-> d.rest.refPascal, type |-> "one-to-one",
                                  foreignKey |-> Some(d.name.camel)])

NoRelation(model, d) ==
    \A j \in FieldsNamed(model, d.name.camel) :
        model.fields[j].type # "relation" /\ model.fields[j].relation = Absent

(***************************************************************************)
(* C9: every column holding REFERENCES <table> yields a field of type      *)
(* relation, with relation.model = PascalCase(table), relation.type =      *)
(* one-to-one and relation.foreignKey the field's own camelCase name,      *)
(* whether its declared type is a scalar or an enum; a column without      *)
(* REFERENCES yields no field that is a relation or has a relation         *)
(* descriptor.                                                             *)
(***************************************************************************)
C9_SqlReferencesWins ==
    Aligned =>
        \A k \in 1..Len(sqlOut.models) :
            \A d \in Range(ColumnsOf(TablesOf(sqlStmts)[k])) :
                IF d.rest.ref # ""
                THEN RelationResolved(sqlOut.models[k], d)
                ELSE NoRelation(sqlOut.models[k], d)

\* a REFERENCES column dropped by the filter
C9_Witness ==
    /\ sqlPc = "done"
    /\ sqlInput = "CREATE TABLE orders (unique_code UUID REFERENCES users(id));"
    /\ sqlOut.models = <<[name |-> "Orders", fields |-> <<>>]>>

\* what does hold: of the columns that reach parseSqlColumn, those with
\* REFERENCES are relations and the others are not
ReferencesWinsPastTheFilter ==
    Aligned =>
        \A k \in 1..Len(sqlOut.models) :
            \A d \in Range(ParsedColumnsOf(TablesOf(sqlStmts)[k])) :
                IF d.rest.ref # ""
                THEN RelationResolved(sqlOut.models[k], d)
                ELSE NoRelation(sqlOut.models[k], d)
                     /\ FieldsNamed(sqlOut.models[k], d.name.camel) # {}

EnumColumnWithReferences ==
    /\ Aligned
    /\ Len(sqlStmts) = 2 /\ sqlStmts[1].kind = "enum" /\ sqlStmts[2].kind = "table"
    /\ sqlStmts[2].defs[1].text = "user_id order_status NOT NULL references order_items (id)"
    /\ Len(sqlOut.models[1].fields) = 1
    /\ sqlOut.models[1].fields[1].type = "relation"
    /\ sqlOut.models[1].fields[1].enumValues = Some(<<"pending", "shipped">>)
    /\ sqlOut.models[1].fields[1].relation
           = Some([model |-> "OrderItems", type |-> "one-to-one", foreignKey |-> Some("userId")])

(***************************************************************************)
(* What was written, for comparison with what parsePrismaSchema returned   *)
(***************************************************************************)

\* the places in the document of the model blocks that are closed
ClosedModelPlaces(blocks) ==
    {i \in 1..Len(blocks) : blocks[i].type = "model" /\ blocks[i].closed}

ClosedModels(blocks) == SeqFilter(blocks, LAMBDA b : b.type = "model" /\ b.closed)

FieldLinesOf(block) == SeqFilter(block.lines, LAMBDA l : l.kind = "field")

\* the document with the lines that are no "<name> <Type>" taken out
WithoutMismatches(blocks) ==
    [i \in 1..Len(blocks) |->
        [blocks[i] EXCEPT !.lines = SeqFilter(@, LAMBDA l : l.kind # "mismatch")]]

ScalarTypeNames ==
    {"String", "Int", "Float", "Decimal", "BigInt", "Boolean", "DateTime", "Json"}

\* the scan is over, and the models correspond to the closed model blocks,
\* field by field
PrAligned ==
    /\ prPc = "done" /\ prDoc.described
    /\ Len(prModels) = Len(ClosedModels(prDoc.blocks))
    /\ \A k \in 1..Len(prModels) :
          Len(prModels[k].fields) = Len(FieldLinesOf(ClosedModels(prDoc.blocks)[k]))

(***************************************************************************)
(* C2: for every closed model block the model's fields are exactly the     *)
(* block's lines that match "<name> <Type>", in source order; a line that  *)
(* does not match is dropped, and the models are those of the same         *)
(* document without that line.                                             *)
(***************************************************************************)
C2_PrismaDegradation ==
    prPc = "done" /\ prDoc.described =>
        /\ Len(prModels) = Len(ClosedModels(prDoc.blocks))
        /\ \A k \in 1..Len(prModels) :
              NamesOf(prModels[k].fields)
                  = [j \in 1..Len(FieldLinesOf(ClosedModels(prDoc.blocks)[k])) |->
                        FieldLinesOf(ClosedModels(prDoc.blocks)[k])[j].name]
        /\ prModels = parsePrismaSchema(RenderDoc(WithoutMismatches(prDoc.blocks))).models

C2_Witness ==
    /\ prPc = "done"
    /\ prInput = "model User {\n  id        String   @id @default(cuid())\n  title\n  name      String\n}\n"
    /\ Len(prModels) = 1
    /\ NamesOf(prModels[1].fields) = <<"id", "name">>

\* the enum blocks named type that are closed before place i
ClosedEnumsBefore(blocks, i, type) ==
    SeqFilter(SubSeq(blocks, 1, i - 1),
              LAMBDA b : b.type = "enum" /\ b.closed /\ b.name = type)

C10_PrismaFieldFlags ==
    /\ prPc = "done" /\ prDoc.described => PrAligned
    /\ PrAligned =>
          \A k \in 1..Len(prModels) :
              LET block == ClosedModels(prDoc.blocks)[k]
              IN  /\ prModels[k].name = block.name
                  /\ \A j \in 1..Len(prModels[k].fields) :
                        LET f == prModels[k].fields[j]
                            l == FieldLinesOf(block)[j]
                        IN  /\ f.name = l.name
                            /\ f.isId = l.id
                            /\ f.isUnique = l.unique
                            /\ f.isList = l.list
                            /\ f.isRequired = ~l.optional
    /\ prPc = "done" /\ prDoc = Doc(<<ModelBlock("User", <<IdLine, EmailLine, NameLine>>, TRUE)>>) =>
          /\ Len(prModels) = 1
          /\ NamesOf(prModels[1].fields) = <<"id", "email", "name">>
          /\ [j \in 1..3 |-> prModels[1].fields[j].isId] = <<TRUE, FALSE, FALSE>>
          /\ prModels[1].fields[2].isUnique

\* a "?" in a trailing comment makes the field optional
C10_Witness ==
    /\ prPc = "done"
    /\ prInput = "model Post_2 {\n  id        String   @id @default(cuid())\n  note      String   // optional?\n  name      String\n}\n"
    /\ Len(prModels) = 1 /\ prModels[1].name = "Post_2"
    /\ Len(prModels[1].fields) = 3
    /\ ~prModels[1].fields[2].isRequired
    /\ prModels[1].fields[1].isId /\ ~prModels[1].fields[2].isId

(***************************************************************************)
(* Reading the generated text back: the constructs it declares             *)
(***************************************************************************)

GenLines == splitOn(genOut, "\n")

\* the lines between the one line that is header and the next line that is
\* closer; <<"?">> when the header is not there exactly once
ConstructBody(lines, header, closer) ==
    LET heads == {i \in 1..Len(lines) : lines[i] = header}
        h == CHOOSE i \in heads : TRUE
        ends == {i \in (h + 1)..Len(lines) : lines[i] = closer}
    IN  IF Cardinality(heads) # 1 \/ ends = {} THEN <<"?">>
        ELSE SubSeq(lines, h + 1, (CHOOSE i \in ends : \A j \in ends : i <= j) - 1)

\* the member lines of a construct, its doc comments left out
Members(body) == SeqFilter(body, LAMBDA l : ~startsWith(l, "  /**"))

\* the name a member line declares: what stands between the two leading
\* spaces and the colon, without the "?" of an optional member
MemberName(line) ==
    LET colon == RunEndNot(line, 1, {":"})
        name == SubSeq(line, 3, colon - 1)
    IN  IF name # "" /\ At(name, Len(name)) = "?" THEN SubSeq(name, 1, Len(name) - 1)
        ELSE name

MemberNames(body) == MapSeq(MemberName, Members(body))

FullConstruct(lines, name) ==
    IF genTarget = "zod"
    THEN ConstructBody(lines, "export const " \o lowerFirst(name) \o "Schema = z.object({",
                       "});")
    ELSE ConstructBody(lines, "export interface " \o name \o " {", "}")

CreateConstruct(lines, name) ==
    IF genTarget = "zod"
    THEN ConstructBody(lines, "export const create" \o name \o "Schema = z.object({", "});")
    ELSE ConstructBody(lines, "export interface Create" \o name \o "Input {", "}")

\* the update construct: the create construct with every field made optional
UpdateLine(name) ==
    IF genTarget = "zod"
    THEN "export const update" \o name \o "Schema = create" \o name \o "Schema.partial();"
    ELSE "export type Update" \o name \o "Input = Partial<Create" \o name \o "Input>;"

\* the places, among a model's non-relation fields, of those that are
\* neither the id nor named like a timestamp the store manages
KeptPlaces(dataFields) ==
    {j \in 1..Len(dataFields) :
        /\ ~dataFields[j].isId
        /\ dataFields[j].name \notin {"createdAt", "updatedAt", "created_at", "updated_at"}}

(***************************************************************************)
(* C1: for both generators and every model, the full construct declares    *)
(* all non-relation fields; the create construct declares those of them    *)
(* that have isId false and are not named createdAt, updatedAt, created_at *)
(* or updated_at, in the same relative order and as the full construct     *)
(* spells them; the update construct is the create construct with every    *)
(* field made optional.                                                    *)
(***************************************************************************)
C1_CreateUpdateShape ==
    genPc = "done" =>
        LET lines == GenLines
        IN  \A k \in 1..Len(genSchema.models) :
                LET model == genSchema.models[k]
                    dataFields == SeqFilter(model.fields, LAMBDA f : f.type # "relation")
                    kept == KeptPlaces(dataFields)
                    full == Members(FullConstruct(lines, model.name))
                    create == Members(CreateConstruct(lines, model.name))
                    update == UpdateLine(model.name)
                IN  /\ MapSeq(MemberName, full) = NamesOf(dataFields)
                    /\ create = [n \in 1..Cardinality(kept) |-> full[KthOf(kept, n)]]
                    /\ MapSeq(MemberName, create)
                           = [n \in 1..Cardinality(kept) |-> dataFields[KthOf(kept, n)].name]
                    /\ Cardinality({i \in 1..Len(lines) : lines[i] = update}) = 1

C1_Witness ==
    /\ genPc = "done" /\ genTarget = "types"
    /\ Len(genSchema.models) = 3
    /\ genSchema.models[3].name = "order_item"
    /\ NamesOf(genSchema.models[3].fields) = <<"author", "updated_at", "id", "tags">>
    /\ MemberNames(FullConstruct(GenLines, "order_item")) = <<"updated_at", "id", "tags">>
    /\ Members(CreateConstruct(GenLines, "order_item")) = <<"  tags?: string[];">>
    /\ includes(genOut, "\nexport type Updateorder_itemInput = Partial<Createorder_itemInput>;\n")

(***************************************************************************)
(* C11: for every field line carrying @default(X), X being the text        *)
(* between the attribute's opening parenthesis and its matching closing    *)
(* parenthesis, the emitted field's default equals X exactly; a line       *)
(* without the attribute yields a field without default.                   *)
(***************************************************************************)
C11_DefaultVerbatim ==
    PrAligned =>
        \A k \in 1..Len(prModels) :
            LET lines == FieldLinesOf(ClosedModels(prDoc.blocks)[k])
            IN  \A j \in 1..Len(lines) :
                    prModels[k].fields[j].default = DefaultWritten(lines[j].text)

\* the default written as now() is emitted without its closing parenthesis
C11_Witness ==
    /\ prPc = "done"
    /\ prDoc = Doc(<<ModelBlock("Post_2", <<IdLine, CreatedAtLine, NameLine>>, TRUE)>>)
    /\ DefaultWritten(CreatedAtLine.text) = Some("now()")
    /\ prModels[1].fields[2].name = "createdAt"
    /\ prModels[1].fields[2].default = Some("now(")

\* what the code does: the capture ends before the first ")" after
\* "@default(", which is the matching one only when X holds no call
DefaultUpToFirstParen ==
    PrAligned =>
        \A k \in 1..Len(prModels) :
            LET lines == FieldLinesOf(ClosedModels(prDoc.blocks)[k])
            IN  \A j \in 1..Len(lines) :
                    LET written == DefaultWritten(lines[j].text)
                    IN  prModels[k].fields[j].default =
                            IF written = Absent THEN Absent
                            ELSE Some(splitOn(written[1], ")")[1])

(***************************************************************************)
(* C12: every field whose type token is neither a scalar name nor the name *)
(* of an enum collected before gets type relation, with relation.model the *)
(* raw type token and relation.type one-to-many if the field is            *)
(* list-marked, otherwise one-to-one; many-to-many is never produced, also *)
(* when both sides of a relation declare list fields.                      *)
(***************************************************************************)
C12_RelationDescriptor ==
    /\ PrAligned =>
          \A k \in 1..Len(prModels) :
              LET place == KthOf(ClosedModelPlaces(prDoc.blocks), k)
                  lines == FieldLinesOf(prDoc.blocks[place])
              IN  \A j \in 1..Len(lines) :
                      LET f == prModels[k].fields[j]
                      IN  /\ lines[j].type \notin ScalarTypeNames
                          /\ ClosedEnumsBefore(prDoc.blocks, place, lines[j].type) = <<>>
                          => /\ f.type = "relation"
                             /\ f.relation # Absent
                             /\ f.relation[1].model = lines[j].type
                             /\ f.relation[1].type = IF lines[j].list THEN "one-to-many"
                                                     ELSE "one-to-one"
    /\ \A k \in 1..Len(prModels) : \A j \in 1..Len(prModels[k].fields) :
          LET f == prModels[k].fields[j]
          IN  f.relation # Absent => f.relation[1].type # "many-to-many"

\* a field whose type token is a name every object inherits is emitted with
\* a type that is no FieldType and without relation descriptor
C12_Witness ==
    /\ prPc = "done"
    /\ prDoc = Doc(<<ModelBlock("Post_2", <<IdLine, OwnerLine, NameLine>>, TRUE)>>)
    /\ prModels[1].fields[2].name = "owner"
    /\ prModels[1].fields[2].type = InheritedValue
    /\ prModels[1].fields[2].relation = Absent

\* what holds: the descriptor is as stated for every type token outside the
\* inherited names, and many-to-many is never produced
RelationOutsideInheritedKeys ==
    /\ PrAligned =>
          \A k \in 1..Len(prModels) :
              LET place == KthOf(ClosedModelPlaces(prDoc.blocks), k)
                  lines == FieldLinesOf(prDoc.blocks[place])
              IN  \A j \in 1..Len(lines) :
                      LET f == prModels[k].fields[j]
                      IN  /\ lines[j].type \notin ScalarTypeNames \cup InheritedKeys
                          /\ ClosedEnumsBefore(prDoc.blocks, place, lines[j].type) = <<>>
                          => /\ f.type = "relation"
                             /\ f.relation # Absent
                             /\ f.relation[1].model = lines[j].type
                             /\ f.relation[1].type = IF lines[j].list THEN "one-to-many"
                                                     ELSE "one-to-one"
                             /\ f.enumValues = Absent
    /\ \A k \in 1..Len(prModels) : \A j \in 1..Len(prModels[k].fields) :
          LET f == prModels[k].fields[j]
          IN  f.relation # Absent => f.relation[1].type \in {"one-to-one", "one-to-many"}

\* both sides of the relation are list fields, and both are one-to-many
BothSidesLists ==
    /\ prPc = "done"
    /\ prDoc = Doc(<<ModelBlock("User", <<PostsLine>>, TRUE),
                     ModelBlock("Post", <<AuthorsLine>>, TRUE)>>)
    /\ prModels[1].fields[1].relation[1].type = "one-to-many"
    /\ prModels[2].fields[1].relation[1].type = "one-to-many"

\* the schema-dialect signature as the text was written: a line with the
\* signature at its start, or a block keyword and name whose brace begins
\* the next line that is not blank
WrittenPrisma(lines) ==
    \E k \in 1..Len(lines) :
        \/ lines[k].prisma
        \/ /\ lines[k].kind = "head"
           /\ \E m \in (k + 1)..Len(lines) :
                 /\ lines[m].kind = "brace"
                 /\ \A n \in (k + 1)..(m - 1) : lines[n].kind = "blank"

\* the SQL signature as the text was written
WrittenSql(lines) == \E k \in 1..Len(lines) : lines[k].sql

(***************************************************************************)
(* C13: detectFormat returns exactly one of prisma, sql, english for every *)
(* text and never fails; prisma iff some line of the trimmed text starts   *)
(* with model, datasource, generator or enum followed by a name and a      *)
(* brace; otherwise sql iff the text holds CREATE TABLE or CREATE TYPE in  *)
(* any letter case; otherwise english.  A text with both signatures is     *)
(* prisma.                                                                 *)
(***************************************************************************)
C13_DetectFormatOrdered ==
    dfPc = "done" =>
        /\ dfOut \in InputFormats
        /\ dfOut = "prisma" <=> WrittenPrisma(dfText.lines)
        /\ dfOut = "sql" <=> ~WrittenPrisma(dfText.lines) /\ WrittenSql(dfText.lines)
        /\ dfOut = "english" <=> ~WrittenPrisma(dfText.lines) /\ ~WrittenSql(dfText.lines)

\* a text with both signatures, the SQL one first
C13_Witness ==
    /\ dfPc = "done"
    /\ dfText.text = "CREATE TABLE users (id INT);\nmodel User {"
    /\ WrittenPrisma(dfText.lines) /\ WrittenSql(dfText.lines)
    /\ dfOut = "prisma"

(***************************************************************************)
(* C20: parseSchema returns a DatabaseSchema, never null, and never raises *)
(* for the formats prisma and sql, whatever the input text; for english it *)
(* returns null whatever the text; it raises only for a format tag outside *)
(* these three.                                                            *)
(***************************************************************************)
C20_ParseSchemaDispatch ==
    /\ psPc \in {"call", "done", "thrown"}
    /\ psPc # "call" =>
          /\ psPc = "thrown" <=> psFormat \notin InputFormats
          /\ psFormat \in {"prisma", "sql"} =>
                /\ psOut # Absent
                /\ DOMAIN psOut[1] = {"models", "enums"}
          /\ psFormat = "prisma" => psOut[1] = parsePrismaSchema(psInput)
          /\ psFormat = "sql" => psOut[1] = parseSqlSchema(psInput)
          /\ psFormat = "english" => psOut = Absent

\* english returns null for a text a deterministic parser would read
C20_Witness ==
    /\ psPc = "done"
    /\ psFormat = "english"
    /\ psInput = "CREATE TABLE users (id INT);"
    /\ Len(parseSqlSchema(psInput).models) = 1
    /\ psOut = Absent

\* prisma on a text that holds no block: an empty schema, not null
EmptySchemaNotNull ==
    /\ psPc = "done"
    /\ psFormat = "prisma"
    /\ psInput = "A users table with a name and an email"
    /\ psOut = Some(EmptySchema)

\* an unknown format tag raises
UnknownFormatRaises == psPc = "thrown" /\ psFormat = "graphql"

endsWith(s, p) == Len(s) >= Len(p) /\ SubSeq(s, Len(s) - Len(p) + 1, Len(s)) = p

\* what a member line of a validator construct gives the member: the text
\* between ": " and the closing comma
ValidatorOf(line) ==
    LET colon == RunEndNot(line, 1, {":"})
    IN  SubSeq(line, colon + 2, Len(line) - 1)

\* a validator read from the outside in: whether it ends with the optional
\* marker, whether what is left is an array, and what the array is of
ReadValidator(v) ==
    LET optional == endsWith(v, ".optional()")
        inner == IF optional THEN SubSeq(v, 1, Len(v) - Len(".optional()")) ELSE v
        array == startsWith(inner, "z.array(") /\ endsWith(inner, ")")
        base == IF array THEN SubSeq(inner, Len("z.array(") + 1, Len(inner) - 1) ELSE inner
    IN  [optional |-> optional, array |-> array, base |-> base]

\* the validators a FieldType selects
BaseValidators(type) ==
    CASE type = "string" -> {"z.string()", "z.string().min(1)"}
      [] type = "number" -> {"z.number()"}
      [] type = "boolean" -> {"z.boolean()"}
      [] type \in {"date", "datetime"} -> {"z.coerce.date()"}
      [] type = "json" -> {"z.record(z.unknown())"}
      [] OTHER -> {}

\* an enum-typed field is validated by reference, by an inline list of
\* literals, or as a plain string
EnumValidator(base) ==
    \/ endsWith(base, "Schema")
    \/ startsWith(base, "z.enum([") /\ endsWith(base, "])")
    \/ base = "z.string()"

(***************************************************************************)
(* C14: for every non-relation field the emitted validator is              *)
(* optional-of(array-of(base)): the array is applied iff isList, the       *)
(* optional marker iff not isRequired and always outermost, and base is    *)
(* the UUID-string validator whenever isId, whatever the FieldType,        *)
(* otherwise the validator the FieldType selects.                          *)
(***************************************************************************)
C14_ValidatorComposition ==
    genPc = "done" /\ genTarget = "zod" =>
        LET lines == GenLines
        IN  \A k \in 1..Len(genSchema.models) :
                LET model == genSchema.models[k]
                    dataFields == SeqFilter(model.fields, LAMBDA f : f.type # "relation")
                    full == FullConstruct(lines, model.name)
                IN  /\ Len(full) = Len(dataFields)
                    /\ \A j \in 1..Len(dataFields) :
                          LET f == dataFields[j]
                              r == ReadValidator(ValidatorOf(full[j]))
                          IN  /\ r.optional <=> ~f.isRequired
                              /\ r.array <=> f.isList
                              /\ ~endsWith(r.base, ".optional()")
                              /\ ~startsWith(r.base, "z.array(")
                              /\ IF f.isId THEN r.base = "z.string().uuid()"
                                 ELSE IF f.type = "enum" THEN EnumValidator(r.base)
                                 ELSE r.base \in BaseValidators(f.type)
                    /\ \A line \in Range(CreateConstruct(lines, model.name)) :
                          line \in Range(full)

\* an optional list of json values beside the id
C14_Witness ==
    /\ genPc = "done" /\ genTarget = "zod"
    /\ \E k \in 1..Len(genSchema.models) : \E j \in 1..Len(genSchema.models[k].fields) :
          LET f == genSchema.models[k].fields[j]
          IN  /\ f.type = "json" /\ f.isList /\ ~f.isRequired /\ ~f.isId
              /\ "  meta: z.array(z.record(z.unknown())).optional()," \in Range(GenLines)
    /\ genSchema.models[1].fields[1].isId
    /\ "  id: z.string().uuid()," \in Range(GenLines)

\* an id of type number is validated as a UUID string
NumberIdIsUuid ==
    /\ genPc = "done" /\ genTarget = "zod"
    /\ Len(genSchema.models) = 1 /\ Len(genSchema.models[1].fields) = 3
    /\ genSchema.models[1].fields[2] = Field("sku", "number", TRUE, TRUE, TRUE, FALSE)
    /\ "  sku: z.string().uuid()," \in Range(GenLines)

(***************************************************************************)
(* C15: the validator generator gives a field the non-empty constraint     *)
(* z.string().min(1) iff strictMode is true and the field has type string, *)
(* isRequired true and isId false; with strictMode false no field of any   *)
(* schema gets the constraint, required or not.                            *)
(***************************************************************************)
C15_StrictModeHonored ==
    genPc = "done" /\ genTarget = "zod" =>
        LET lines == GenLines
        IN  /\ \A k \in 1..Len(genSchema.models) :
                  LET model == genSchema.models[k]
                      dataFields == SeqFilter(model.fields, LAMBDA f : f.type # "relation")
                      full == FullConstruct(lines, model.name)
                      create == CreateConstruct(lines, model.name)
                      kept == KeptPlaces(dataFields)
                  IN  /\ Len(full) = Len(dataFields)
                      /\ Len(create) = Cardinality(kept)
                      /\ \A j \in 1..Len(dataFields) :
                            LET f == dataFields[j]
                                strict == /\ genConfig.strictMode
                                          /\ f.type = "string" /\ f.isRequired /\ ~f.isId
                            IN  /\ ReadValidator(ValidatorOf(full[j])).base = "z.string().min(1)"
                                       <=> strict
                                /\ includes(full[j], ".min(") <=> strict
                      /\ \A n \in 1..Len(create) :
                            LET f == dataFields[KthOf(kept, n)]
                            IN  includes(create[n], ".min(")
                                    <=> /\ genConfig.strictMode
                                        /\ f.type = "string" /\ f.isRequired /\ ~f.isId
            /\ ~genConfig.strictMode => \A i \in 1..Len(lines) : ~includes(lines[i], ".min(")

\* under strictMode a required string that is no id is constrained, and the
\* string id beside it is not
C15_Witness ==
    /\ genPc = "done" /\ genTarget = "zod" /\ genConfig.strictMode
    /\ genSchema.models[1].fields = <<GenId, Field("created_at", "string", TRUE, FALSE, FALSE, FALSE), GenEmail>>
    /\ "  email: z.string().min(1)," \in Range(GenLines)
    /\ "  id: z.string().uuid()," \in Range(GenLines)

\* without strictMode a required string is not constrained
RequiredStringUnconstrained ==
    /\ genPc = "done" /\ genTarget = "zod" /\ ~genConfig.strictMode
    /\ Len(genSchema.models) = 1 /\ Len(genSchema.models[1].fields) = 3
    /\ genSchema.models[1].fields[3] = GenEmail
    /\ "  email: z.string()," \in Range(GenLines)

\* under strictMode an optional string is not constrained
OptionalStringUnconstrained ==
    /\ genPc = "done" /\ genTarget = "zod" /\ genConfig.strictMode
    /\ Len(genSchema.models) = 1 /\ Len(genSchema.models[1].fields) = 3
    /\ genSchema.models[1].fields[2] = Field("nick", "string", FALSE, FALSE, FALSE, FALSE)
    /\ "  nick: z.string().optional()," \in Range(GenLines)

\* what a member line of an interface gives the member: the text between
\* ": " and the closing semicolon
TypeOf(line) ==
    LET colon == RunEndNot(line, 1, {":"})
    IN  SubSeq(line, colon + 2, Len(line) - 1)

\* the base a member line was rendered over, the array and the optional
\* marker taken off
RenderedBase(line, field) ==
    IF genTarget = "zod" THEN ReadValidator(ValidatorOf(line)).base
    ELSE IF field.isList THEN SubSeq(TypeOf(line), 1, Len(TypeOf(line)) - 2)
    ELSE TypeOf(line)

\* the literals of an inline list, each in double quotes
RECURSIVE Literals(_, _)
Literals(values, sep) ==
    IF values = <<>> THEN ""
    ELSE IF Len(values) = 1 THEN "\"" \o values[1] \o "\""
    ELSE "\"" \o values[1] \o "\"" \o sep \o Literals(Tail(values), sep)

\* how each generator spells a reference, an inline list and a plain string
EnumReference(name) ==
    IF genTarget = "zod"
    THEN (IF Head(name) \in CharsOf(UpperLetters) THEN LowerOf[Head(name)] ELSE Head(name))
             \o Tail(name) \o "Schema"
    ELSE name
InlineEnum(values) ==
    IF genTarget = "zod" THEN "z.enum([" \o Literals(values, ", ") \o "])"
    ELSE Literals(values, " | ")
PlainString == IF genTarget = "zod" THEN "z.string()" ELSE "string"

(***************************************************************************)
(* C16: in both generators a non-id field of type enum whose enumValues    *)
(* are, in length, values and order, those of some top-level Enum is       *)
(* rendered as a reference to the first such Enum in schema order, never   *)
(* as an inline list; with no matching top-level Enum it is rendered       *)
(* inline over its enumValues, and as a plain string when enumValues is    *)
(* absent or empty.                                                        *)
(***************************************************************************)
C16_SharedEnumReference ==
    genPc = "done" =>
        LET lines == GenLines
        IN  \A k \in 1..Len(genSchema.models) :
                LET model == genSchema.models[k]
                    dataFields == SeqFilter(model.fields, LAMBDA f : f.type # "relation")
                    full == Members(FullConstruct(lines, model.name))
                IN  /\ Len(full) = Len(dataFields)
                    /\ \A j \in 1..Len(dataFields) :
                          LET f == dataFields[j]
                              base == RenderedBase(full[j], f)
                              matching == {e \in 1..Len(genSchema.enums) :
                                              /\ f.enumValues # Absent
                                              /\ genSchema.enums[e].values = f.enumValues[1]}
                          IN  f.type = "enum" /\ ~f.isId =>
                                  IF matching # {}
                                  THEN LET first == CHOOSE e \in matching :
                                                        \A o \in matching : e <= o
                                       IN  /\ base = EnumReference(genSchema.enums[first].name)
                                           /\ ~includes(full[j], "\"")
                                  ELSE IF f.enumValues # Absent /\ f.enumValues[1] # <<>>
                                  THEN base = InlineEnum(f.enumValues[1])
                                  ELSE base = PlainString

\* two top-level enums with the values of the field: the first is referred to
C16_Witness ==
    /\ genPc = "done"
    /\ genSchema.enums = <<AccessTopEnum, RoleTopEnum>>
    /\ Len(genSchema.models) = 1 /\ Len(genSchema.models[1].fields) = 2
    /\ genSchema.models[1].fields[2].type = "enum"
    /\ ~genSchema.models[1].fields[2].isId
    /\ genSchema.models[1].fields[2].enumValues = Some(RoleValues)
    /\ \/ genTarget = "types" /\ "  role: Access;" \in Range(GenLines)
       \/ genTarget = "zod" /\ "  role: accessSchema," \in Range(GenLines)

\* the values of a top-level enum in another order: an inline list
OtherOrderInline ==
    /\ genPc = "done" /\ genTarget = "types"
    /\ genSchema.enums = <<RoleTopEnum>>
    /\ "  role: \"USER\" | \"ADMIN\";" \in Range(GenLines)

\* no value, and a top-level enum with no value either: a reference
EmptyValuesReference ==
    /\ genPc = "done" /\ genTarget = "zod"
    /\ genSchema.enums = <<StatusTopEnum, NoneTopEnum>>
    /\ "  kind: noneSchema," \in Range(GenLines)

\* no list of values: a plain string, whatever enums are declared
NoValuesPlainString ==
    /\ genPc = "done" /\ genTarget = "zod"
    /\ genSchema.enums = <<StatusTopEnum, NoneTopEnum>>
    /\ "  kind: z.string()," \in Range(GenLines)

\* a comment line, and the first line of a construct
CommentLine(line) == startsWith(line, "/**") \/ startsWith(line, "//")
                         \/ startsWith(line, "  /**") \/ startsWith(line, "  //")
ConstructLine(line) == startsWith(line, "export const ")

\* the constructs the validator generator emits for a schema, in order:
\* one per top-level enum, then full, create and update of each model
ZodConstructs(schema) ==
    [e \in 1..Len(schema.enums) |->
        "export const " \o lowerFirst(schema.enums[e].name) \o "Schema = z.enum("]
    \o Flatten([m \in 1..Len(schema.models) |->
                   <<"export const " \o lowerFirst(schema.models[m].name) \o "Schema = z.object(",
                     "export const create" \o schema.models[m].name \o "Schema = z.object(",
                     "export const update" \o schema.models[m].name \o "Schema = ">>])

(***************************************************************************)
(* C17: with includeComments true the validator generator puts exactly one *)
(* comment line immediately before each top-level enum construct and each  *)
(* of a model's full, create and update constructs; with includeComments   *)
(* false the output holds no comment line at all, and its lines are the    *)
(* non-comment lines of the output produced with includeComments true.     *)
(***************************************************************************)
C17_CommentsFollowConfig ==
    genPc = "done" /\ genTarget = "zod" =>
        LET lines == GenLines
            other == splitOn(generateZodSchemas(genSchema,
                                 [genConfig EXCEPT !.includeComments = ~@]), "\n")
            heads == {i \in 1..Len(lines) : ConstructLine(lines[i])}
            comments == {i \in 1..Len(lines) : CommentLine(lines[i])}
            constructs == ZodConstructs(genSchema)
        IN  /\ Cardinality(heads) = Len(constructs)
            /\ \A n \in 1..Len(constructs) : startsWith(lines[KthOf(heads, n)], constructs[n])
            /\ IF genConfig.includeComments
               THEN /\ comments = {i - 1 : i \in heads}
                    /\ comments \cap heads = {}
                    /\ other = SeqFilter(lines, LAMBDA l : ~CommentLine(l))
               ELSE /\ comments = {}
                    /\ lines = SeqFilter(other, LAMBDA l : ~CommentLine(l))

\* three models and two enums under includeComments: eleven constructs,
\* eleven comment lines
C17_Witness ==
    /\ genPc = "done" /\ genTarget = "zod" /\ genConfig.includeComments
    /\ Len(genSchema.models) = 3 /\ Len(genSchema.enums) = 2
    /\ Cardinality({i \in 1..Len(GenLines) : CommentLine(GenLines[i])}) = 11
    /\ "/** Schema for updating a order_item (all fields optional) */" \in Range(GenLines)

\* the same schema without comments
NoCommentAtAll ==
    /\ genPc = "done" /\ genTarget = "zod" /\ ~genConfig.includeComments
    /\ Len(genSchema.models) = 3 /\ Len(genSchema.enums) = 2
    /\ \A i \in 1..Len(GenLines) : ~CommentLine(GenLines[i])

\* the first line of a model's WithRelations interface
RelationsHeader(name) == "export interface " \o name \o "WithRelations extends " \o name \o " {"

\* the member a relation field with descriptor is to be rendered as
RelationMember(field) ==
    IF field.isList THEN "  " \o field.name \o ": " \o field.relation[1].model \o "[];"
    ELSE IF field.isRequired THEN "  " \o field.name \o ": " \o field.relation[1].model \o ";"
    ELSE "  " \o field.name \o "?: " \o field.relation[1].model \o ";"

\* the WithRelations interface of a model is emitted iff related is not
\* empty, and then holds exactly the fields of related, in order
RelationsOver(lines, model, related) ==
    LET headers == {i \in 1..Len(lines) : lines[i] = RelationsHeader(model.name)}
        body == ConstructBody(lines, RelationsHeader(model.name), "}")
    IN  /\ Cardinality(headers) = (IF related = <<>> THEN 0 ELSE 1)
        /\ related # <<>> =>
              /\ MemberNames(body) = NamesOf(related)
              /\ \A j \in 1..Len(related) :
                    related[j].relation # Absent => body[j] = RelationMember(related[j])

\* no relation-typed field of the model is declared by its full or its
\* create construct
RelationsKeptOut(lines, model) ==
    \A f \in Range(model.fields) :
        f.type = "relation" =>
            /\ f.name \notin Range(MemberNames(FullConstruct(lines, model.name)))
            /\ f.name \notin Range(MemberNames(CreateConstruct(lines, model.name)))

(***************************************************************************)
(* C18: for every schema the IR schema accepts, the type-definition        *)
(* generator emits a <Model>WithRelations interface for a model iff the    *)
(* model has at least one field of type relation; the interface holds      *)
(* exactly the model's relation-typed fields in source order, each typed   *)
(* as the related model (an array of it, never optional, when isList;      *)
(* otherwise optional iff not isRequired); no relation-typed field appears *)
(* in the full, create or update construct.                                *)
(***************************************************************************)
C18_WithRelations ==
    genPc = "done" /\ genTarget = "types" =>
        LET lines == GenLines
        IN  \A k \in 1..Len(genSchema.models) :
                LET model == genSchema.models[k]
                IN  /\ RelationsOver(lines, model,
                                     SeqFilter(model.fields, LAMBDA f : f.type = "relation"))
                    /\ RelationsKeptOut(lines, model)

\* the only relation-typed field of the model has no relation descriptor:
\* no WithRelations interface is emitted
C18_Witness ==
    /\ genPc = "done" /\ genTarget = "types"
    /\ Len(genSchema.models) = 1
    /\ genSchema.models[1].fields = <<GenId, GenEditor, GenEmail>>
    /\ GenEditor.type = "relation" /\ GenEditor.relation = Absent
    /\ RelationsHeader("Post") \notin Range(GenLines)

\* what holds: the interface is over the relation-typed fields that carry a
\* relation descriptor
WithRelationsOverDescribed ==
    genPc = "done" /\ genTarget = "types" =>
        LET lines == GenLines
        IN  \A k \in 1..Len(genSchema.models) :
                LET model == genSchema.models[k]
                IN  /\ RelationsOver(lines, model,
                                     SeqFilter(model.fields,
                                               LAMBDA f : f.type = "relation"
                                                              /\ f.relation # Absent))
                    /\ RelationsKeptOut(lines, model)

\* a list of related models marked not required is an array, not optional
ListRelationNeverOptional ==
    /\ genPc = "done" /\ genTarget = "types"
    /\ Len(genSchema.models) = 1
    /\ genSchema.models[1].fields = <<GenId, GenWatchers, GenEmail>>
    /\ ConstructBody(GenLines, RelationsHeader("Post"), "}") = <<"  watchers: User[];">>

\* a call returned the text the call before it returned
SameTextAgain == genPrev # Absent => genOut = genPrev[1]

\* a call leaves schema, config and target as they were
InputsUntouched ==
    genSchema' = genSchema /\ genConfig' = genConfig /\ genTarget' = genTarget

SerialTypes == {"SERIAL", "BIGSERIAL"}

C25_SerialIsId ==
    Aligned =>
        \A k \in 1..Len(sqlOut.models) : \A j \in 1..Len(sqlOut.models[k].fields) :
            LET f == sqlOut.models[k].fields[j]
            IN  \A d \in Range(ColumnsOf(TablesOf(sqlStmts)[k])) :
                    d.name.camel = f.name /\ d.type.raw \in SerialTypes
                        => f.isId /\ f.isRequired

\* a SERIAL column that is an identifier: PRIMARY KEY follows the type
C25_Witness ==
    /\ sqlPc = "done"
    /\ sqlInput = "CREATE TABLE orders (id SERIAL PRIMARY KEY);"
    /\ Len(sqlOut.models) = 1 /\ Len(sqlOut.models[1].fields) = 1
    /\ sqlOut.models[1].fields[1].isId /\ sqlOut.models[1].fields[1].isRequired
    /\ sqlOut.models[1].fields[1].type = "number"

\* the same column with nothing after the type: what follows the type is
\* empty, and the field is neither an identifier nor required
SerialAloneIsNoId ==
    /\ sqlPc = "done"
    /\ sqlInput = "CREATE TABLE orders (id SERIAL);"
    /\ Len(sqlOut.models) = 1 /\ Len(sqlOut.models[1].fields) = 1
    /\ sqlOut.models[1].fields[1].name = "id"
    /\ sqlOut.models[1].fields[1].type = "number"
    /\ ~sqlOut.models[1].fields[1].isId /\ ~sqlOut.models[1].fields[1].isRequired

(***************************************************************************)
(* C24: the block state machine of the schema-dialect scanner.  A model or *)
(* an enum is emitted only at a line that is "}" once trimmed, read while  *)
(* a block is open, one per such line, so that models and enums together   *)
(* are as many as those lines; a block left open at the end of the input   *)
(* emits nothing; a "model X {" or "enum X {" line read while a block is   *)
(* open discards that block with the lines collected for it and opens the  *)
(* new one; a "}" read with no block open and a line outside every block   *)
(* change nothing.                                                         *)
(***************************************************************************)
Emitted == Len(prModels) + Len(prEnums)

\* what one segment of the written text does to the block that is open and
\* to the names emitted so far
RECURSIVE AfterLooseLines(_, _, _)
AfterLooseLines(w, lines, i) ==
    IF i > Len(lines) THEN w
    ELSE IF lines[i].kind = "close" /\ w.open # Absent
    THEN AfterLooseLines([open |-> Absent,
                          models |-> IF w.open[1].type = "model"
                                     THEN Append(w.models, w.open[1].name) ELSE w.models,
                          enums |-> IF w.open[1].type = "enum"
                                    THEN Append(w.enums, w.open[1].name) ELSE w.enums,
                          closings |-> w.closings + 1], lines, i + 1)
    ELSE AfterLooseLines(w, lines, i + 1)

AfterSegment(w, b) ==
    IF b.type = "loose" THEN AfterLooseLines(w, b.lines, 1)
    ELSE IF b.closed
    THEN [open |-> Absent,
          models |-> IF b.type = "model" THEN Append(w.models, b.name) ELSE w.models,
          enums |-> IF b.type = "enum" THEN Append(w.enums, b.name) ELSE w.enums,
          closings |-> w.closings + 1]
    ELSE [w EXCEPT !.open = Some(b)]

RECURSIVE AfterSegments(_, _, _)
AfterSegments(w, segments, i) ==
    IF i > Len(segments) THEN w
    ELSE AfterSegments(AfterSegment(w, segments[i]), segments, i + 1)

\* the names the segments of a text are written to emit, and the number of
\* closing lines written while a block is open
Written(segments) ==
    AfterSegments([open |-> Absent, models |-> <<>>, enums |-> <<>>, closings |-> 0],
                  segments, 1)

EmittedAsWritten ==
    prPc = "done" /\ prDoc \in ScanDocs \cup BlockDocs =>
        LET w == Written(prDoc.blocks)
        IN  /\ NamesOf(prModels) = w.models
            /\ NamesOf(prEnums) = w.enums
            /\ Emitted = w.closings

\* one turn of the loop emits at most one model or enum, and only at a "}"
\* read with a block open, which it closes; a "}" read with no block open and
\* a line read outside every block that opens none change nothing
EmitsOnlyAtClosingLine ==
    prPc = "scan" /\ prLine' = prLine + 1 =>
        LET trimmed == trim(prLines[prLine + 1])
            closing == trimmed = "}" /\ currentBlock # Absent
        IN  /\ Emitted' = IF closing THEN Emitted + 1 ELSE Emitted
            /\ closing => currentBlock' = Absent
            /\ ~closing => SubSeq(prModels', 1, Len(prModels)) = prModels
                           /\ SubSeq(prEnums', 1, Len(prEnums)) = prEnums
            /\ currentBlock = Absent /\ currentBlock' = Absent
                   => prModels' = prModels /\ prEnums' = prEnums
            /\ currentBlock' # Absent /\ currentBlock' # currentBlock /\ currentBlock # Absent
                   => \/ currentBlock'[1].lines = <<>>
                      \/ /\ currentBlock'[1].name = currentBlock[1].name
                         /\ currentBlock'[1].lines = Append(currentBlock[1].lines, trimmed)

C24_BlockStateMachine == [](EmittedAsWritten) /\ [][EmitsOnlyAtClosingLine]_vars

\* an open block discarded by the next opener, a closed block, and a "}"
\* read with no block open: one model is emitted
C24_Witness ==
    /\ prPc = "done"
    /\ prInput = "model Draft {\n  id        String   @id @default(cuid())\nmodel User {\n  name      String\n}\n}\n"
    /\ NamesOf(prModels) = <<"User">> /\ prEnums = <<>>
    /\ currentBlock = Absent

\* a block left open at the end of the input emits nothing
OpenAtEndEmitsNothing ==
    /\ prPc = "done"
    /\ prInput = "provider = x\n}}\n\nenum Role {\n  ADMIN\n  USER\n"
    /\ prModels = <<>> /\ prEnums = <<>>
    /\ currentBlock # Absent

(***************************************************************************)
(* C26: with a clock that never goes back, every client key has at most    *)
(* 20 calls admitted in any interval shorter than 60 seconds; after every  *)
(* call each stored list holds at most 20 timestamps; a rejected call      *)
(* (429) leaves the store as it was; and a call of one client changes the  *)
(* outcome of no later call of another client.                             *)
(***************************************************************************)
\* the times at which a later call is looked at
ProbeTimes == {rlNow + dt : dt \in Advances \cup {WINDOW_MS}}

\* whether a call of client ip at time t would find the limit reached
WouldReject(store, ip, t) == Len(recentOf(storeGet(store, ip), t)) >= MAX_REQUESTS

AdmittedWithinWindow ==
    \A ip \in ClientIps :
        \A i \in 1..Len(rlAdmitted[ip]) :
            i + MAX_REQUESTS <= Len(rlAdmitted[ip])
                => rlAdmitted[ip][i + MAX_REQUESTS] - rlAdmitted[ip][i] >= WINDOW_MS

C26_WindowBound ==
    /\ AdmittedWithinWindow
    /\ \A ip \in DOMAIN rlStore : Len(rlStore[ip]) <= MAX_REQUESTS
    /\ rlLast.called /\ rlLast.response # Absent =>
          /\ rlLast.response[1].status = 429
          /\ rlStore = rlLast.before
    /\ rlLast.called =>
          \A other \in ClientIps \ {rlLast.ip} : \A t \in ProbeTimes :
              /\ WouldReject(rlStore, other, t) = WouldReject(rlLast.before, other, t)
              /\ recentOf(storeGet(rlStore, other), t)
                     = recentOf(storeGet(rlLast.before, other), t)

\* the twenty-first call of a client within the window is rejected, with the
\* list of another client in store
C26_Witness ==
    /\ rlLast.called /\ rlLast.ip = "10.0.0.1"
    /\ rlLast.response = TooManyRequests(1)
    /\ Len(rlAdmitted["10.0.0.1"]) = MAX_REQUESTS
    /\ rlAdmitted["10.0.0.1"][MAX_REQUESTS] = OthersStamp
    /\ rlNow = OthersStamp + WINDOW_MS - 1
    /\ "10.0.0.2" \in DOMAIN rlStore

(***************************************************************************)
(* C27: a rejected call carries a Retry-After r with 1 <= r <= 60, and the *)
(* next call of the same client made r seconds or more after the rejection *)
(* is admitted, no call of that client having been admitted in between;    *)
(* the cleanup changes the outcome of no later call.                       *)
(***************************************************************************)
RetryAfterInRange ==
    rlLast.called /\ rlLast.response # Absent =>
        /\ rlLast.response[1].retryAfter >= 1
        /\ rlLast.response[1].retryAfter <= WINDOW_MS \div 1000

\* a call made when a Retry-After given to its client has run out
RetryIsAdmitted == rlLast.called /\ rlLast.due => rlLast.response = Absent

\* store, cleaned up, rejects and admits as it would never cleaned up
CleanupChangesNoOutcome ==
    \A ip \in ClientIps : \A t \in ProbeTimes :
        recentOf(storeGet(rlStore, ip), t) = recentOf(storeGet(rlPlain, ip), t)

C27_RetryAfterSufficient ==
    RetryAfterInRange /\ RetryIsAdmitted /\ CleanupChangesNoOutcome

\* a client rejected, its key then deleted by the cleanup another client's
\* call ran, and its call after Retry-After admitted
C27_Witness ==
    /\ rlLast.called /\ rlLast.due /\ rlLast.response = Absent
    /\ rlLast.ip = "10.0.0.1"
    /\ "10.0.0.1" \notin DOMAIN rlLast.before
    /\ "10.0.0.2" \in DOMAIN rlLast.before
    /\ rlOthers = 0
    /\ rlStore["10.0.0.1"] = <<rlNow>>

(***************************************************************************)
(* C21: generateFromTemplate returns text for zod and for types and        *)
(* throws for trpc and for react-form; isTemplateTarget is true of exactly *)
(* the targets it does not throw for; and the generate handler, which      *)
(* calls it only for a target isTemplateTarget is true of, never has it    *)
(* throw.                                                                  *)
(***************************************************************************)
ValidBody ==
    /\ ~epBody.malformed
    /\ epRoute = "parse" => epBody.format \in InputFormats
    /\ epRoute = "generate" => epBody.target \in GenerationTargets

C21_TemplateDispatch ==
    /\ genPc \in {"done", "thrown"} =>
          /\ genPc = "done" <=> genTarget \in {"zod", "types"}
          /\ genPc = "thrown" <=> genTarget \in {"trpc", "react-form"}
          /\ isTemplateTarget(genTarget) <=> genPc = "done"
          /\ genPc = "done" => genOut # ""
    /\ ~epRaised
    /\ epRoute = "generate" /\ epPc = "responded" /\ ValidBody =>
          /\ epResponse.kind = "code" <=> epBody.target \in {"zod", "types"}
          /\ epResponse.kind = "code" <=> isTemplateTarget(epBody.target)
          /\ epResponse.kind = "code" => epResponse.status = 200 /\ epResponse.text # ""
          /\ epResponse.kind = "error" => epResponse.status = 429

\* the generate handler answers a request for types with the generated text
C21_Witness ==
    /\ epRoute = "generate" /\ epPc = "responded"
    /\ epBody.target = "types" /\ epBody.config = Absent
    /\ epResponse.status = 200 /\ epResponse.kind = "code"
    /\ epResponse.text = generateTypeDefinitions(epBody.schema, DEFAULT_CONFIG)
    /\ epTrace = <<>>

\* generateFromTemplate, called for trpc, has thrown
TrpcRaises == genPc = "thrown" /\ genTarget = "trpc" /\ genOut = ""

(***************************************************************************)
(* C22: on the natural-language path the parse handler answers with a      *)
(* schema only if the text of the model is JSON and passes                 *)
(* DatabaseSchemaSchema; a text that is not JSON is answered with 422, and *)
(* JSON outside the IR shape with 400; no answer with an error carries a   *)
(* schema.                                                                 *)
(***************************************************************************)
ModelAnswered == epRoute = "parse" /\ epPc = "responded" /\ Len(epTrace) = 2

C22_ValidationBoundary ==
    /\ ModelAnswered /\ ~epReply.failed =>
          /\ ~epReply.json => epResponse = ErrorResponse(422)
          /\ epReply.json /\ ~epReply.shape => epResponse = ErrorResponse(400)
          /\ epReply.json /\ epReply.shape =>
                epResponse.status = 200 /\ epResponse.schema # Absent
    /\ ModelAnswered /\ epReply.failed => epResponse = ErrorResponse(400)
    /\ ModelAnswered /\ epReply = ValidReply => epResponse = SchemaResponse(BlogSchema)
    /\ epResponse.schema # Absent => epResponse.status = 200
    /\ epPc = "responded" /\ epResponse.status # 200 =>
          epResponse.schema = Absent /\ epResponse.kind = "error"

\* the model's text, JSON of the IR shape, answered with the schema it stands for
C22_Witness ==
    /\ ModelAnswered /\ epReply = ValidReply
    /\ epBody.format = "english"
    /\ epResponse = SchemaResponse(BlogSchema)

\* prose before the JSON: 422
ProseIs422 ==
    /\ ModelAnswered /\ epReply.text = "Here is the schema:\n" \o BlogJson
    /\ epResponse = ErrorResponse(422)

(***************************************************************************)
(* C23: in every schema that enters the pipeline, returned by one of the   *)
(* two parsers or accepted from the model by DatabaseSchemaSchema, every   *)
(* field of type relation has its relation; and in those the parsers       *)
(* return every field of type enum has its enumValues.                     *)
(***************************************************************************)
FieldsOf(schema) ==
    UNION {Range(schema.models[k].fields) : k \in 1..Len(schema.models)}

RelationsDescribed(schema) ==
    \A f \in FieldsOf(schema) : f.type = "relation" => f.relation # Absent

EnumsValued(schema) ==
    \A f \in FieldsOf(schema) : f.type = "enum" => f.enumValues # Absent

C23_RelationInvariant ==
    epRoute = "parse" /\ epPc = "responded" /\ epResponse.schema # Absent =>
        /\ RelationsDescribed(epResponse.schema[1])
        /\ epTrace = <<>> => EnumsValued(epResponse.schema[1])

\* a schema accepted from the model, its relation field described
C23_Witness ==
    /\ ModelAnswered /\ epReply = ValidReply
    /\ epResponse.status = 200
    /\ \E f \in FieldsOf(epResponse.schema[1]) : f.type = "relation" /\ f.relation # Absent
    /\ RelationsDescribed(epResponse.schema[1])

\* a schema accepted from the model with a relation field that has no relation
UndescribedAccepted ==
    /\ ModelAnswered /\ epReply = UndescribedReply
    /\ epResponse.status = 200
    /\ \E f \in FieldsOf(epResponse.schema[1]) : f.type = "relation" /\ f.relation = Absent

\* the two parsers by themselves
SqlKeepsInvariant == sqlPc = "done" => RelationsDescribed(sqlOut) /\ EnumsValued(sqlOut)

PrismaKeepsInvariant ==
    prPc = "done" =>
        LET schema == [models |-> prModels, enums |-> prEnums]
        IN  RelationsDescribed(schema) /\ EnumsValued(schema)

(***************************************************************************)
(* C28: a request on a deterministic path (format prisma or sql, target    *)
(* zod or types) never has rateLimit or the model called, whatever the     *)
(* limiter holds; on a model-driven path (format english, target trpc or   *)
(* react-form) rateLimit is called before the model, and a request         *)
(* answered with 429 never reaches the model.                              *)
(***************************************************************************)
DeterministicPath ==
    /\ ValidBody
    /\ \/ epRoute = "parse" /\ epBody.format \in {"prisma", "sql"}
       \/ epRoute = "generate" /\ epBody.target \in {"zod", "types"}

ModelPath ==
    /\ ValidBody
    /\ \/ epRoute = "parse" /\ epBody.format = "english"
       \/ epRoute = "generate" /\ epBody.target \in {"trpc", "react-form"}

LimitedFirst ==
    /\ DeterministicPath =>
          /\ epTrace = <<>>
          /\ rlLast = NoCall /\ rlCalls = 0
          /\ epPc \in {"received", "responded"}
          /\ epPc = "responded" => epResponse.status = 200
    /\ ModelPath =>
          /\ epTrace \in {<<>>, <<"rateLimit">>, <<"rateLimit", "model">>}
          /\ epTrace = <<>> <=> epPc \in {"received", "limit"}
          /\ Len(epTrace) = 2 => rlLast.called /\ rlLast.response = Absent
          /\ epResponse.status = 429 <=> rlLast.called /\ rlLast.response # Absent
          /\ epResponse.status = 429 => epTrace = <<"rateLimit">> /\ epPc = "responded"

DeterministicLeavesLimiter == DeterministicPath => UNCHANGED rlVars

C28_OnlyModelPathsLimited == [](LimitedFirst) /\ [][DeterministicLeavesLimiter]_vars

\* a description in English answered with 429: rateLimit called, the model not
C28_Witness ==
    /\ epRoute = "parse" /\ epBody.format = "english" /\ epPc = "responded"
    /\ epResponse = ErrorResponse(429)
    /\ epTrace = <<"rateLimit">>
    /\ Len(storeGet(rlStore, "10.0.0.1")) = MAX_REQUESTS

\* a schema-dialect text answered while the client's window is full
DeterministicWhileFull ==
    /\ epRoute = "parse" /\ epBody.format = "prisma" /\ epPc = "responded"
    /\ epResponse.status = 200 /\ epTrace = <<>>
    /\ clientIp(epHeaders) = "10.0.0.1"
    /\ Len(storeGet(rlStore, "10.0.0.1")) = MAX_REQUESTS

(***************************************************************************)
(* C29: while a run started by handleGenerate is active (it has not        *)
(* completed or failed, and its controller was not aborted by Cancel or by *)
(* a newer Generate), isGenerating is true, and once the run is in         *)
(* generateTarget, streamingTarget is the target it is streaming; the      *)
(* finally block of an earlier, aborted run does not reset them while the  *)
(* newer run is active, whenever that run's rejection is taken up.         *)
(***************************************************************************)
Waiting(r) == runs[r].pc \in {"parse", "fetch", "read"}

Active(r) == Waiting(r) /\ ~signalAborted(r)

Streaming(r) == runs[r].pc \in {"fetch", "read"}

ShownAsRunning(r) ==
    /\ isGenerating
    /\ Streaming(r) => streamingTarget = Some(GENERATION_ORDER[runs[r].target])

StaleCleanupHidesRun ==
    /\ runs[1].ended = "aborted"
    /\ Active(2)
    /\ runs[2].pc = "read"
    /\ ~isGenerating
    /\ streamingTarget = Absent

(***************************************************************************)
(* C30: the targets of a run are generated one after another in the order  *)
(* zod, types, trpc, react-form, a failure or a cancellation leaves the    *)
(* later targets ungenerated, and "All targets generated" is displayed     *)
(* only when the most recent run completed all four targets: not after a   *)
(* run that was cancelled, that failed part-way, or that ended with the    *)
(* "No models found" error.                                                *)
(***************************************************************************)
\* {!isGenerating && outputs.zod && ...}
IndicatorShown == ~isGenerating /\ outputs["zod"] # ""

MostRecentCompleted == started > 0 /\ runs[started].ended = "completed"

\* text is shown for a target only once the most recent run has come to it
GeneratedInOrder ==
    \A i \in 1..Len(GENERATION_ORDER) :
        outputs[GENERATION_ORDER[i]] # "" => started > 0 /\ runs[started].target >= i

NoModelsHidesIndicator == pageError = Some(NoModelsFound) => ~IndicatorShown

C30_IndicatorTruthful ==
    /\ GeneratedInOrder
    /\ NoModelsHidesIndicator
    /\ IndicatorShown => MostRecentCompleted

\* a run went through all four targets and the indicator is displayed
C30_Witness ==
    /\ IndicatorShown
    /\ MostRecentCompleted
    /\ \A t \in GenerationTargets : outputs[t] # ""

\* the indicator is displayed after Cancel was clicked while zod streamed
IndicatorAfterCancel ==
    /\ IndicatorShown
    /\ started = 1
    /\ signalAborted(1)
    /\ runs[1].target = 1
    /\ \A t \in GenerationTargets \ {"zod"} : outputs[t] = ""

\* the indicator is displayed after /api/generate refused a later target
IndicatorAfterFailure ==
    /\ IndicatorShown
    /\ started = 1
    /\ runs[1].ended = "failed"
    /\ pageError # Absent
    /\ outputs["react-form"] = ""

=============================================================================
